---- MODULE Spec2Model ----
(***************************************************************************)
(* Log-Based SOC Platform: the response path (ResponseEngine and           *)
(* FirewallController), the reputation engine (IOCEngine) and the          *)
(* detection engine (DetectionEngine), as state machines.                  *)
(*                                                                         *)
(* Text is modelled as a sequence of one-character strings, so that        *)
(* str.startswith is a real prefix test.                                   *)
(***************************************************************************)
EXTENDS Integers, Sequences, FiniteSets, TLC

VARIABLES
    \* ---- configuration and environment --------------------------------
    autoBlock,      \* config.settings.AUTO_BLOCK: enabled = "ENABLED", require_ioc = "REQUIRE_IOC"
    features,       \* config.settings.FEATURES: [EMAIL_ALERTS, EMAIL_ALL_DETECTIONS]
    osType,         \* FirewallController.os_type (platform.system())
    clock,          \* wall clock, seconds
    \* ---- threads -------------------------------------------------------
    pc,             \* per thread: position in handle_detection / block_ip
    det,            \* per thread: the detection handed to handle_detection
    nowL,           \* per thread: the local `now` of handle_detection
    fwArg,          \* per thread: arguments of the running block_ip call
    fwRet,          \* per thread: where block_ip returns to
    fwMethod,       \* per thread: local `method` of block_ip
    fwResult,       \* per thread: what the last block_ip call returned
    calls,          \* number of calls started so far (bounds the run)
    \* ---- FirewallController -------------------------------------------
    blockedFile,    \* content of BLOCKED_IPS_FILE when last written whole: ip -> record
    ledgerTorn,     \* BLOCKED_IPS_FILE is truncated or partly written at the moment
    ledgerPending,  \* the dict a write_text in progress is writing, or NoWrite
    viewSaw,        \* what the last BlockedIPsView.load_blocked_ips read
    netsh,          \* ip -> number of _block_windows runs that launched netsh
    \* ---- ResponseEngine -----------------------------------------------
    handled,        \* _handled_incidents: key -> time
    pdfLatch,       \* _pdf_generated_for_run
    reports,        \* reports generated since the last reset of the latch
    alerted,        \* per thread: this call handed its detection to send_alert
    asked,          \* per thread: this call called firewall.block_ip
    signalled,      \* per thread: this call emitted ip_blocked
    failed,         \* per thread: the steps of the running call whose collaborator raised
    prevRun,        \* per thread: time of the last handled call with the same key, or NoTime
    lastRun,        \* key -> local time of the last call that passed the dedup check
    outcome,        \* per thread: how the last handle_detection call ended
    \* ---- IOCEngine ----------------------------------------------------
    iocs,           \* IOCEngine.iocs
    last_updated,   \* IOCEngine.last_updated
    cacheFile,      \* content of IOC_CACHE_FILE
    tmpFile,        \* content of the .tmp file beside it
    upc,            \* per caller: position in update_iocs
    unow,           \* per caller: the local `now` of update_iocs
    collected,      \* per caller: the local `collected` of update_iocs
    upending,       \* per caller: the lines of the feed body still to be read
    ufetched,       \* per caller: this call requested the feed
    usnap,          \* per caller: iocs and last_updated when the call began
    uresult,        \* per caller: how the last update_iocs call ended
    callLog,        \* the last two finished update_iocs calls, oldest first
    \* ---- ioc_scheduler ------------------------------------------------
    refreshHours,   \* SCHEDULER["IOC_REFRESH_HOURS"]
    schedulerStarted, \* ioc_scheduler._scheduler_started
    spc,            \* position of the IOC-Scheduler thread
    stopAsked,      \* the application asked its background threads to stop
    \* ---- DetectionEngine ----------------------------------------------
    hasEngine,      \* DetectionEngine.ioc_engine is not None
    entry,          \* the entry last handed to analyze_entry
    result,         \* the list analyze_entry returned for it
    \* ---- CorrelationEngine --------------------------------------------
    batch,          \* the list handed to correlate
    correlated,     \* correlate has returned for this batch
    incidents,      \* the list correlate returned
    \* ---- Normalizer ---------------------------------------------------
    nEntry,         \* the entry handed to normalize_log_entry
    nPieces,        \* number of pieces its request was made of
    nPhase,         \* "input", "normalized", "again"
    nOut,           \* normalize_log_entry(nEntry)
    nAgain,         \* normalize_log_entry of the normalized fields of nOut
    \* ---- LiveLogTailer ------------------------------------------------
    tpc,            \* position of the thread that runs start()
    tRunning,       \* LiveLogTailer._running
    tFile,          \* LiveLogTailer._file: the inode of the open handle, or NoFile
    tPos,           \* offset of the open handle
    tLastInode,     \* LiveLogTailer._last_inode: (inode, size), or NoSignature
    tStat,          \* the local `inode` of _open_if_needed
    files,          \* inode -> content of the file
    pathInode,      \* the inode that file_path names
    written,        \* number of complete lines the writer appended
    partial,        \* the writer appended a line without its newline yet
    fragAfterOpen,  \* that text was appended after the first open
    stopRequested,  \* stop() was called
    delivered,      \* the arguments of the callback, in order
    afterOpen,      \* the lines completed after the first open
    opened,         \* the tailer opened the file at least once
    disturbed,      \* the file was rotated
    presentAtOpen,  \* the complete lines that were in the file at an open of it
    \* ---- AlertManager -------------------------------------------------
    configValid,    \* AlertManager._config_valid
    lastSent,       \* AlertManager._last_sent, NoTime for None
    apc,            \* per invocation of send_batch_alerts: its position
    messages,       \* per invocation: the calls of server.send_message
    passed          \* the times at which an invocation passed the rate limit, in order

fwVars   == <<blockedFile, ledgerTorn, ledgerPending, viewSaw, netsh>>
thrVars  == <<pc, det, nowL, fwArg, fwRet, fwMethod, fwResult, calls>>
respVars == <<handled, pdfLatch, reports, alerted, asked, signalled, failed,
              prevRun, lastRun, outcome>>
cfgVars  == <<autoBlock, features, osType>>
iocVars  == <<iocs, last_updated, cacheFile, tmpFile, upc, unow, collected, upending,
              ufetched, usnap, uresult, callLog>>
schedVars == <<refreshHours, schedulerStarted, spc, stopAsked>>
\* What the response path leaves alone.
detVars  == <<hasEngine, entry, result>>
corrVars == <<batch, correlated, incidents>>
\* The components added after the detection engine.
normVars == <<nEntry, nPieces, nPhase, nOut, nAgain>>
tailerVars == <<tpc, tRunning, tFile, tPos, tLastInode, tStat>>
fileVars == <<files, pathInode, written, partial>>
tailGhost == <<stopRequested, delivered, afterOpen, opened, disturbed, fragAfterOpen,
               presentAtOpen>>
tailVars == <<tailerVars, fileVars, tailGhost>>
alertVars == <<configValid, lastSent, apc, messages, passed>>
restVars == <<corrVars, normVars, tailVars, alertVars>>
outerVars == <<cfgVars, iocVars, schedVars, detVars, restVars>>
\* The response path, the reputation engine and the detection engine.
coreVars == <<cfgVars, clock, thrVars, fwVars, respVars, iocVars, schedVars, detVars,
              alertVars>>
\* What the tailer leaves alone.
tailFrame == <<coreVars, corrVars, normVars>>
vars     == <<coreVars, restVars>>

\* No time recorded.
NoTime == 0 - 1

(***************************************************************************)
(* Bounds of the model.                                                    *)
(***************************************************************************)
MaxCalls == 2
MaxTicks == 3
MaxBatch == 6
MaxPieces == 4
MaxLines == 2

Threads == {"t1", "t2"}
MainThread == "t1"

(***************************************************************************)
(* Text helpers.                                                           *)
(***************************************************************************)
StartsWith(s, p) == Len(s) >= Len(p) /\ SubSeq(s, 1, Len(p)) = p

UNKNOWN == <<"U","N","K","N","O","W","N">>
EmptyText == <<>>

\* Sample addresses.
IpLoopback == <<"1","2","7",".","0",".","0",".","1">>
IpTen      == <<"1","0",".","1",".","2",".","3">>
Ip192      == <<"1","9","2",".","1","6","8",".","1",".","1","0">>
Ip17216    == <<"1","7","2",".","1","6",".","0",".","1">>
Ip17220    == <<"1","7","2",".","2","0",".","5",".","5">>
Ip17231    == <<"1","7","2",".","3","1",".","0",".","9">>
IpPublicA  == <<"8",".","8",".","8",".","8">>
IpPublicB  == <<"2","0","3",".","0",".","1","1","3",".","7">>

SampleIps == {IpLoopback, IpTen, Ip192, Ip17216, Ip17220, Ip17231,
              IpPublicA, IpPublicB, UNKNOWN, EmptyText}

Reasons == {"SQL Injection", "Sensitive File Access"}

(***************************************************************************)
(* FirewallController                                                      *)
(***************************************************************************)
PrivatePrefixes ==
    { <<"1","2","7",".">>, <<"1","0",".">>, <<"1","9","2",".","1","6","8",".">>,
      <<"1","7","2",".","1","6",".">>, <<"1","7","2",".","1","7",".">>,
      <<"1","7","2",".","1","8",".">>, <<"1","7","2",".","1","9",".">>,
      <<"1","7","2",".","2">>, <<"0",".">> }

\* FirewallController._is_private_ip
IsPrivateIp(ip) == \E p \in PrivatePrefixes : StartsWith(ip, p)

\* Result of the checks at the head of block_ip: TRUE when the call goes on
\* to the audit-ledger check.
PolicyAllows(ip, ioc_confirmed) ==
    /\ autoBlock.enabled
    /\ ~(autoBlock.require_ioc /\ ~ioc_confirmed)
    /\ ~(ip = EmptyText \/ ip = UNKNOWN)
    /\ ~IsPrivateIp(ip)

EmptyMap == [k \in {} |-> 0]

\* _load_history on the ledger file: the parsed content, or the empty dict
\* when read_text or json.loads raised (file missing, unreadable, corrupt).
LoadHistory == IF ledgerTorn THEN {EmptyMap} ELSE {blockedFile, EmptyMap}

NoWrite == "none"

\* self._lock is held: a thread is inside the write of the ledger.
LedgerLockHeld == \E t \in Threads : pc[t] = "fw_write"

\* The record block_ip writes for an address.
BlockRecord(t) ==
    [ blocked_at    |-> clock,
      reason        |-> fwArg[t].reason,
      ioc_confirmed |-> fwArg[t].ioc,
      os            |-> osType,
      method        |-> fwMethod[t] ]

NoArg == [ip |-> UNKNOWN, reason |-> "Unknown Threat", ioc |-> FALSE]

\* block_ip returns to its caller; its locals are gone.
FwReturnTo(t, blocked) ==
    /\ pc' = [pc EXCEPT ![t] = fwRet[t]]
    /\ fwArg' = [fwArg EXCEPT ![t] = NoArg]
    /\ fwRet' = [fwRet EXCEPT ![t] = "idle"]
    /\ fwMethod' = [fwMethod EXCEPT ![t] = "audit-only"]
    /\ fwResult' = [fwResult EXCEPT ![t] = blocked]

\* A direct call of FirewallController.block_ip.
BlockIpCall(t, ip, reason, ioc) ==
    /\ pc[t] = "idle"
    /\ calls < MaxCalls
    /\ calls' = calls + 1
    /\ fwArg' = [fwArg EXCEPT ![t] = [ip |-> ip, reason |-> reason, ioc |-> ioc]]
    /\ fwRet' = [fwRet EXCEPT ![t] = "idle"]
    /\ fwMethod' = [fwMethod EXCEPT ![t] = "audit-only"]
    /\ fwResult' = [fwResult EXCEPT ![t] = FALSE]
    /\ pc' = [pc EXCEPT ![t] = "fw_policy"]
    /\ UNCHANGED <<outerVars, clock, det, nowL, fwVars, respVars>>

\* block_ip, policy and safety checks.
FwPolicy(t) ==
    /\ pc[t] = "fw_policy"
    /\ IF PolicyAllows(fwArg[t].ip, fwArg[t].ioc)
          THEN pc' = [pc EXCEPT ![t] = "fw_check"]
               /\ UNCHANGED <<fwArg, fwRet, fwMethod, fwResult>>
          ELSE FwReturnTo(t, FALSE)
    /\ UNCHANGED <<outerVars, clock, det, nowL, calls, fwVars, respVars>>

\* block_ip, audit dedup: `with self._lock: history = load; if ip in history`.
FwCheck(t) ==
    /\ pc[t] = "fw_check"
    /\ ~LedgerLockHeld
    /\ \E history \in LoadHistory :
          IF fwArg[t].ip \in DOMAIN history
             THEN FwReturnTo(t, FALSE)
             ELSE /\ pc' = [pc EXCEPT ![t] = "fw_os"]
                  /\ UNCHANGED <<fwArg, fwRet, fwMethod, fwResult>>
    /\ UNCHANGED <<outerVars, clock, det, nowL, calls, fwVars, respVars>>

\* block_ip, OS handling: _block_windows on Windows, a log line elsewhere.
\* Popen either launches netsh or raises, which block_ip catches.
FwOs(t) ==
    /\ pc[t] = "fw_os"
    /\ IF osType = "Windows"
          THEN \/ /\ netsh' = [netsh EXCEPT ![fwArg[t].ip] = @ + 1]
                  /\ fwMethod' = [fwMethod EXCEPT ![t] = "netsh"]
                  /\ pc' = [pc EXCEPT ![t] = "fw_audit"]
                  /\ UNCHANGED <<fwArg, fwRet, fwResult>>
               \/ /\ FwReturnTo(t, FALSE)
                  /\ UNCHANGED netsh
          ELSE /\ pc' = [pc EXCEPT ![t] = "fw_audit"]
               /\ UNCHANGED <<netsh, fwArg, fwRet, fwMethod, fwResult>>
    /\ UNCHANGED <<outerVars, clock, det, nowL, calls, blockedFile, ledgerTorn,
                   ledgerPending, viewSaw, respVars>>

\* block_ip, audit log: `with self._lock: history = load; history[ip] = ...;
\* save`. _save_history is write_text on the ledger itself: the file is
\* opened for writing, which truncates it, and then written. The open
\* either succeeds or raises, which block_ip catches.
FwAudit(t) ==
    /\ pc[t] = "fw_audit"
    /\ ~LedgerLockHeld
    /\ \/ /\ \E history \in LoadHistory :
                ledgerPending' =
                   [i \in DOMAIN history \cup {fwArg[t].ip} |->
                       IF i = fwArg[t].ip THEN BlockRecord(t) ELSE history[i]]
          /\ ledgerTorn' = TRUE
          /\ pc' = [pc EXCEPT ![t] = "fw_write"]
          /\ UNCHANGED <<fwArg, fwRet, fwMethod, fwResult>>
       \/ /\ UNCHANGED <<ledgerTorn, ledgerPending>>
          /\ FwReturnTo(t, FALSE)
    /\ UNCHANGED <<outerVars, clock, det, nowL, calls, blockedFile, viewSaw, netsh,
                   respVars>>

\* _save_history, the rest of write_text: the text is written and the file
\* closed, or the write raises and leaves the file as far as it got.
FwWrite(t) ==
    /\ pc[t] = "fw_write"
    /\ \/ /\ blockedFile' = ledgerPending
          /\ ledgerTorn' = FALSE
          /\ FwReturnTo(t, TRUE)
       \/ /\ UNCHANGED <<blockedFile, ledgerTorn>>
          /\ FwReturnTo(t, FALSE)
    /\ ledgerPending' = NoWrite
    /\ UNCHANGED <<outerVars, clock, det, nowL, calls, viewSaw, netsh, respVars>>

\* The process dies inside write_text.
FwCrash(t) ==
    /\ pc[t] = "fw_write"
    /\ pc' = [pc EXCEPT ![t] = "crashed"]
    /\ ledgerPending' = NoWrite
    /\ UNCHANGED <<outerVars, clock, det, nowL, fwArg, fwRet, fwMethod, fwResult, calls,
                   blockedFile, ledgerTorn, viewSaw, netsh, respVars>>

\* BlockedIPsView.load_blocked_ips, lines 106-108: the view opens the ledger
\* and parses it, without the lock of the controller.
LoadBlockedIps ==
    /\ viewSaw' = IF ledgerTorn THEN "partial" ELSE "whole"
    /\ viewSaw' # viewSaw
    /\ UNCHANGED <<outerVars, clock, thrVars, blockedFile, ledgerTorn, ledgerPending,
                   netsh, respVars>>

FirewallStep(t) == FwPolicy(t) \/ FwCheck(t) \/ FwOs(t) \/ FwAudit(t) \/ FwWrite(t)

(***************************************************************************)
(* ResponseEngine                                                          *)
(***************************************************************************)
DedupTTL == 600

Severities == {"Critical", "High", "Medium", "Low"}

\* The detections handed to handle_detection: every severity with and without
\* a reputation hit for one public address, and a Critical hit for a second
\* rule, for a private address and for the unknown address. The empty dict
\* reads, through dict.get, as the defaults of lines 62-65.
Detection(ip, rule, severity, ioc_hit) ==
    [empty |-> FALSE, ip |-> ip, rule |-> rule, severity |-> severity,
     ioc_hit |-> ioc_hit]
Detections ==
    {Detection(IpPublicA, "SQL Injection", s, h) : s \in Severities, h \in BOOLEAN}
    \cup {Detection(IpPublicA, "Sensitive File Access", "Critical", TRUE),
          Detection(IpTen, "SQL Injection", "Critical", TRUE),
          Detection(UNKNOWN, "SQL Injection", "Critical", TRUE)}
EmptyDetection ==
    [empty |-> TRUE, ip |-> UNKNOWN, rule |-> "Unknown Threat",
     severity |-> "Low", ioc_hit |-> FALSE]

\* The detections of the concurrent runs.
ConcDetections ==
    {d \in Detections : d.ip = IpPublicA /\ d.ioc_hit
                          /\ d.severity \in {"Critical", "High"}}

\* incident_key
KeyOf(d) == <<d.ip, d.rule, d.severity>>

Keys == {KeyOf(d) : d \in Detections}

\* Mutant: an entry is evicted as soon as it is as old as the TTL.
CleanupEvictsAtTtl(table, now) ==
    LET kept == {k \in DOMAIN table : ~(now - table[k] >= DedupTTL)}
    IN  [k \in kept |-> table[k]]

\* Mutant: nothing is evicted.
CleanupKeepsAll(table, now) == table

\* _cleanup_old_incidents: the table without its expired entries.
CleanupOldIncidents(table, now) ==
    LET kept == {k \in DOMAIN table : ~(now - table[k] > DedupTTL)}
    IN  [k \in kept |-> table[k]]

\* Mutant: High severity is blocked as well.
ShouldBlockFromHigh(severity, ip, ioc_hit) ==
    /\ autoBlock.enabled
    /\ IF autoBlock.require_ioc
          THEN severity \in {"High", "Critical"} /\ ioc_hit
          ELSE severity \in {"High", "Critical"}
    /\ ip # EmptyText /\ ip # UNKNOWN

\* _handle_firewall: the block decision.
ShouldBlock(severity, ip, ioc_hit) ==
    /\ autoBlock.enabled
    /\ IF autoBlock.require_ioc
          THEN severity = "Critical" /\ ioc_hit
          ELSE severity = "Critical"
    /\ ip # EmptyText /\ ip # UNKNOWN

\* Mutant: Medium detections are alerted as well.
ShouldAlertFromMedium(severity) ==
    /\ features.EMAIL_ALERTS
    /\ \/ features.EMAIL_ALL_DETECTIONS
       \/ severity \in {"Medium", "High", "Critical"}

\* _handle_email: whether the detection is handed to the notifier.
ShouldAlert(severity) ==
    /\ features.EMAIL_ALERTS
    /\ \/ features.EMAIL_ALL_DETECTIONS
       \/ severity \in {"High", "Critical"}

\* handle_detection returns.
Return(t, how) ==
    /\ pc' = [pc EXCEPT ![t] = "idle"]
    /\ outcome' = [outcome EXCEPT ![t] = how]
    /\ nowL' = [nowL EXCEPT ![t] = 0]
    /\ prevRun' = [prevRun EXCEPT ![t] = NoTime]
    /\ failed' = [failed EXCEPT ![t] = {}]

\* handle_detection, lines 58-68: the call, the empty check, the key, `now`.
HandleDetection(t, d) ==
    /\ pc[t] = "idle"
    /\ calls < MaxCalls
    /\ calls' = calls + 1
    /\ det' = [det EXCEPT ![t] = d]
    /\ alerted' = [alerted EXCEPT ![t] = FALSE]
    /\ asked' = [asked EXCEPT ![t] = FALSE]
    /\ signalled' = [signalled EXCEPT ![t] = FALSE]
    /\ IF d.empty
          THEN Return(t, "empty")
          ELSE /\ pc' = [pc EXCEPT ![t] = "dedup"]
               /\ outcome' = [outcome EXCEPT ![t] = "running"]
               /\ nowL' = [nowL EXCEPT ![t] = clock]
               /\ prevRun' = [prevRun EXCEPT ![t] =
                     IF KeyOf(d) \in DOMAIN lastRun THEN lastRun[KeyOf(d)] ELSE NoTime]
               /\ UNCHANGED failed
    /\ UNCHANGED <<outerVars, clock, fwArg, fwRet, fwMethod, fwResult, fwVars,
                   handled, pdfLatch, reports, lastRun>>

\* handle_detection, lines 73-79: cleanup, membership check and insertion,
\* one step under self._lock.
\* Mutant: the membership check is answered from what the caller saw when
\* the call began, before it took the lock.
InTableAtCall(t, table) == prevRun[t] # NoTime

\* handle_detection, line 76: `incident_key in self._handled_incidents`,
\* evaluated on the table as it is while the lock is held.
InTable(t, table) == KeyOf(det[t]) \in DOMAIN table

\* Mutant: a duplicate is recorded with the time of its call.
RefreshedByDuplicate(table, key, now) == [table EXCEPT ![key] = now]

\* handle_detection, lines 76-77: the return at the membership check writes
\* nothing to the table.
AfterDuplicate(table, key, now) == table

\* handle_detection, lines 73-79: cleanup, membership check and insertion in
\* one `with self._lock` block.
Dedup(t) ==
    /\ pc[t] = "dedup"
    /\ LET key == KeyOf(det[t])
           cleaned == CleanupOldIncidents(handled, nowL[t])
       IN IF InTable(t, cleaned)
             THEN /\ handled' = AfterDuplicate(cleaned, key, nowL[t])
                  /\ Return(t, "duplicate")
                  /\ UNCHANGED lastRun
             ELSE /\ handled' = [k \in DOMAIN cleaned \cup {key} |->
                                    IF k = key THEN nowL[t] ELSE cleaned[k]]
                  /\ lastRun' = [k \in DOMAIN lastRun \cup {key} |->
                                    IF k = key THEN nowL[t] ELSE lastRun[k]]
                  /\ pc' = [pc EXCEPT ![t] = "firewall"]
                  /\ UNCHANGED <<outcome, nowL, prevRun, failed>>
    /\ UNCHANGED <<outerVars, clock, det, fwArg, fwRet, fwMethod, fwResult, calls,
                   fwVars, pdfLatch, reports, alerted, asked, signalled>>

\* Mutant: an exception of a step leaves handle_detection.
StepFailurePropagates(next) == "idle"

\* handle_detection, lines 88-89, 96-97 and 110-111: the exception of a step
\* is caught and logged, and control goes on to what follows the step.
AfterStepFailure(next) == next

\* handle_detection, lines 84-85 with _handle_firewall: the block decision
\* and the call of firewall.block_ip, which runs or raises at once.
Firewall(t) ==
    /\ pc[t] = "firewall"
    /\ IF ShouldBlock(det[t].severity, det[t].ip, det[t].ioc_hit)
          THEN /\ asked' = [asked EXCEPT ![t] = TRUE]
               /\ \/ /\ fwArg' = [fwArg EXCEPT ![t] =
                           [ip |-> det[t].ip, reason |-> det[t].rule,
                            ioc |-> det[t].ioc_hit]]
                     /\ fwRet' = [fwRet EXCEPT ![t] = "fw_done"]
                     /\ fwMethod' = [fwMethod EXCEPT ![t] = "audit-only"]
                     /\ fwResult' = [fwResult EXCEPT ![t] = FALSE]
                     /\ pc' = [pc EXCEPT ![t] = "fw_policy"]
                     /\ UNCHANGED failed
                  \/ /\ failed' = [failed EXCEPT ![t] = @ \cup {"block"}]
                     /\ pc' = [pc EXCEPT ![t] = AfterStepFailure("email")]
                     /\ UNCHANGED <<fwArg, fwRet, fwMethod, fwResult>>
          ELSE /\ pc' = [pc EXCEPT ![t] = "email"]
               /\ UNCHANGED <<fwArg, fwRet, fwMethod, fwResult, asked, failed>>
    /\ UNCHANGED <<outerVars, clock, det, nowL, calls, fwVars, handled, pdfLatch,
                   reports, alerted, signalled, prevRun, lastRun, outcome>>

\* Mutant: _handle_firewall hands on what block_ip returned.
ResultOfBlockIp(blocked) == blocked

\* _handle_firewall, lines 133-138: the value of block_ip is dropped and
\* True is returned.
HandleFirewallResult(blocked) == TRUE

\* handle_detection, lines 85-87: _handle_firewall returned; ip_blocked is
\* emitted when its value is true.
FwDone(t) ==
    /\ pc[t] = "fw_done"
    /\ signalled' = [signalled EXCEPT ![t] = HandleFirewallResult(fwResult[t])]
    /\ fwResult' = [fwResult EXCEPT ![t] = FALSE]
    /\ pc' = [pc EXCEPT ![t] = "email"]
    /\ UNCHANGED <<outerVars, clock, det, nowL, fwArg, fwRet, fwMethod, calls,
                   fwVars, handled, pdfLatch, reports, alerted, asked, failed,
                   prevRun, lastRun, outcome>>

\* handle_detection, lines 94-97 with _handle_email: send_alert returns or
\* raises.
Email(t) ==
    /\ pc[t] = "email"
    /\ alerted' = [alerted EXCEPT ![t] = ShouldAlert(det[t].severity)]
    /\ \/ /\ pc' = [pc EXCEPT ![t] = "report"]
          /\ UNCHANGED failed
       \/ /\ ShouldAlert(det[t].severity)
          /\ failed' = [failed EXCEPT ![t] = @ \cup {"alert"}]
          /\ pc' = [pc EXCEPT ![t] = AfterStepFailure("report")]
    /\ UNCHANGED <<outerVars, clock, det, nowL, fwArg, fwRet, fwMethod, fwResult, calls,
                   fwVars, handled, pdfLatch, reports, asked, signalled, prevRun,
                   lastRun, outcome>>

\* handle_detection, line 102: the latch is read.
ReportCheck(t) ==
    /\ pc[t] = "report"
    /\ IF pdfLatch
          THEN Return(t, "handled")
          ELSE /\ pc' = [pc EXCEPT ![t] = "report_gen"]
               /\ UNCHANGED <<outcome, nowL, prevRun, failed>>
    /\ UNCHANGED <<outerVars, clock, det, fwArg, fwRet, fwMethod, fwResult, calls,
                   fwVars, handled, pdfLatch, reports, alerted, asked, signalled,
                   lastRun>>

\* Mutant: the latch is set whether or not the reporter raised.
LatchSetAnyway(latch) == TRUE

\* handle_detection, lines 104-111: when reporter.generate raises, line 105
\* is skipped and the handler only logs.
LatchAfterFailedReport(latch) == latch

\* handle_detection, line 104: reporter.generate returns a report or raises.
ReportGen(t) ==
    /\ pc[t] = "report_gen"
    /\ \/ /\ reports' = reports + 1
          /\ pc' = [pc EXCEPT ![t] = "report_set"]
          /\ UNCHANGED <<outcome, nowL, prevRun, failed, pdfLatch>>
       \/ /\ Return(t, "handled")
          /\ pdfLatch' = LatchAfterFailedReport(pdfLatch)
          /\ UNCHANGED reports
    /\ UNCHANGED <<outerVars, clock, det, fwArg, fwRet, fwMethod, fwResult, calls,
                   fwVars, handled, alerted, asked, signalled,
                   lastRun>>

\* handle_detection, line 105: the latch is set.
ReportSet(t) ==
    /\ pc[t] = "report_set"
    /\ pdfLatch' = TRUE
    /\ Return(t, "handled")
    /\ UNCHANGED <<outerVars, clock, det, fwArg, fwRet, fwMethod, fwResult, calls,
                   fwVars, handled, reports, alerted, asked, signalled,
                   lastRun>>

\* LogViewer.run_detection: the latch is reset at the start of a run, when no
\* detection worker is running.
ResetLatch ==
    /\ \A t \in Threads : pc[t] = "idle"
    /\ pdfLatch
    /\ pdfLatch' = FALSE
    /\ reports' = 0
    /\ UNCHANGED <<outerVars, clock, thrVars, fwVars, handled, alerted, asked,
                   signalled, failed, prevRun, lastRun, outcome>>

\* Time passes between calls; a call is short against a tick.
TickLen == DedupTTL \div 2

Tick ==
    /\ \A t \in Threads : pc[t] = "idle"
    /\ clock + TickLen <= MaxTicks * TickLen
    /\ clock' = clock + TickLen
    /\ UNCHANGED <<outerVars, thrVars, fwVars, respVars>>

ResponseStep(t) ==
    \/ Dedup(t) \/ Firewall(t) \/ FwDone(t) \/ Email(t)
    \/ ReportCheck(t) \/ ReportGen(t) \/ ReportSet(t)

(***************************************************************************)
(* IOCEngine                                                               *)
(***************************************************************************)
ThrottleSeconds == 3600

Updaters == {"scheduler", "caller"}
MainUpdater == "caller"

Absent == [state |-> "absent"]
Partial == [state |-> "partial"]
CacheContent(set, stamp) == [state |-> "json", iocs |-> set, last_updated |-> stamp]

\* Mutant: the throttle window is one minute.
ThrottledOneMinute(now, last) == now - last < 60

\* update_iocs, line 79: the hard throttle.
Throttled(now, last) == now - last < ThrottleSeconds

\* str.strip on a line.
RECURSIVE LStrip(_)
LStrip(s) == IF s # <<>> /\ Head(s) = " " THEN LStrip(Tail(s)) ELSE s
RECURSIVE RStrip(_)
RStrip(s) ==
    IF s # <<>> /\ s[Len(s)] = " " THEN RStrip(SubSeq(s, 1, Len(s) - 1)) ELSE s
Strip(s) == LStrip(RStrip(s))

\* update_iocs, lines 91-94: the entries of a feed body, given as its lines.
ParseFeed(body) ==
    {Strip(body[i]) : i \in {j \in 1..Len(body) :
        Strip(body[j]) # <<>> /\ ~StartsWith(Strip(body[j]), <<"#">>)}}

\* Feed bodies the network may return.
CommentLine == <<"#"," ","f","i","r","e","h","o","l">>
BodyTwo     == <<CommentLine, IpPublicA, <<" ">> \o IpPublicB \o <<" ">>>>
BodyOne     == <<IpPublicB, <<>>>>
BodyNoEntry == <<CommentLine, <<" ">>>>
BodyEmpty   == <<>>
FeedBodies  == {BodyTwo, BodyOne, BodyNoEntry, BodyEmpty}

\* update_iocs, line 103: the time recorded for a refresh.
StampTime(t) == unow[t]

\* update_iocs returns or raises; the call is logged.
UReturn(t, how) ==
    /\ upc' = [upc EXCEPT ![t] = "idle"]
    /\ uresult' = [uresult EXCEPT ![t] = how]
    /\ callLog' =
          LET logged == [at |-> unow[t], fetched |-> ufetched[t],
                        replaced |-> how \in {"ok", "raised"}, after |-> iocs]
          IN  IF Len(callLog) < 2 THEN Append(callLog, logged)
                                  ELSE <<callLog[2], logged>>
    /\ unow' = [unow EXCEPT ![t] = 0]
    /\ collected' = [collected EXCEPT ![t] = {}]
    /\ UNCHANGED upending

\* update_iocs, lines 75-80: the call, `now` and the throttle.
UpdateIocsCall(t) ==
    /\ upc[t] = "idle"
    /\ usnap' = [usnap EXCEPT ![t] = [iocs |-> iocs, last_updated |-> last_updated]]
    /\ ufetched' = [ufetched EXCEPT ![t] = FALSE]
    /\ IF Throttled(clock, last_updated)
          THEN /\ upc' = upc
               /\ uresult' = [uresult EXCEPT ![t] = "throttled"]
               /\ callLog' =
                     LET logged == [at |-> clock, fetched |-> FALSE,
                                   replaced |-> FALSE, after |-> iocs]
                     IN  IF Len(callLog) < 2 THEN Append(callLog, logged)
                                             ELSE <<callLog[2], logged>>
               /\ UNCHANGED <<unow, collected, upending>>
          ELSE /\ upc' = [upc EXCEPT ![t] = "u_fetch"]
               /\ unow' = [unow EXCEPT ![t] = clock]
               /\ uresult' = [uresult EXCEPT ![t] = "running"]
               /\ UNCHANGED <<callLog, collected, upending>>
    /\ UNCHANGED <<cfgVars, detVars, restVars, clock, pc, det, nowL, fwArg, fwRet, fwMethod, fwResult,
                   fwVars, respVars, iocs, last_updated, cacheFile, tmpFile>>

\* A call of update_iocs by the application.
UpdateIocs(t) ==
    /\ calls < MaxCalls
    /\ calls' = calls + 1
    /\ UpdateIocsCall(t)
    /\ UNCHANGED schedVars

\* update_iocs, lines 83 and 86-99: `collected` is a new empty set; the one
\* feed is requested; the request raises (caught, nothing collected) or
\* returns a body, whose lines are then read one by one.
UFetch(t) ==
    /\ upc[t] = "u_fetch"
    /\ ufetched' = [ufetched EXCEPT ![t] = TRUE]
    /\ collected' = [collected EXCEPT ![t] = {}]
    /\ \/ /\ upending' = [upending EXCEPT ![t] = <<>>]
          /\ upc' = [upc EXCEPT ![t] = "u_commit"]
       \/ \E body \in FeedBodies :
             /\ upending' = [upending EXCEPT ![t] = body]
             /\ upc' = [upc EXCEPT ![t] = IF body = <<>> THEN "u_commit"
                                                        ELSE "u_collect"]
    /\ UNCHANGED <<cfgVars, schedVars, detVars, restVars, clock, thrVars, fwVars, respVars, iocs,
                   last_updated, cacheFile, tmpFile, unow, usnap, uresult, callLog>>

\* update_iocs, lines 91-94: one line of the body is stripped and, unless
\* blank or a comment, added to `collected`.
UCollect(t) ==
    /\ upc[t] = "u_collect"
    /\ collected' = [collected EXCEPT ![t] = @ \cup ParseFeed(<<Head(upending[t])>>)]
    /\ upending' = [upending EXCEPT ![t] = Tail(@)]
    /\ upc' = [upc EXCEPT ![t] = IF Tail(upending[t]) = <<>> THEN "u_commit"
                                                             ELSE "u_collect"]
    /\ UNCHANGED <<cfgVars, schedVars, detVars, restVars, clock, thrVars, fwVars, respVars, iocs,
                   last_updated, cacheFile, tmpFile, unow, ufetched, usnap, uresult,
                   callLog>>

\* update_iocs, lines 101-102 and 105-109: the set is replaced, or the call
\* ends with nothing loaded.
UCommit(t) ==
    /\ upc[t] = "u_commit"
    /\ IF collected[t] # {}
          THEN /\ iocs' = collected[t]
               /\ upc' = [upc EXCEPT ![t] = "u_stamp"]
               /\ UNCHANGED <<unow, collected, upending, uresult, callLog>>
          ELSE /\ UNCHANGED iocs
               /\ UReturn(t, "nodata")
    /\ UNCHANGED <<cfgVars, schedVars, detVars, restVars, clock, thrVars, fwVars, respVars,
                   last_updated, cacheFile, tmpFile, ufetched, usnap>>

\* update_iocs, line 103.
UStamp(t) ==
    /\ upc[t] = "u_stamp"
    /\ last_updated' = StampTime(t)
    /\ upc' = [upc EXCEPT ![t] = "u_save"]
    /\ UNCHANGED <<cfgVars, schedVars, detVars, restVars, clock, thrVars, fwVars, respVars, iocs, cacheFile,
                   tmpFile, unow, collected, upending, ufetched, usnap, uresult, callLog>>

\* _save_cache, lines 130-142: the temporary file is written, or the write
\* raises and leaves it incomplete; update_iocs does not catch.
USave(t) ==
    /\ upc[t] = "u_save"
    /\ \/ /\ tmpFile' = CacheContent(iocs, last_updated)
          /\ upc' = [upc EXCEPT ![t] = "u_replace"]
          /\ UNCHANGED <<unow, collected, upending, uresult, callLog>>
       \/ /\ tmpFile' = Partial
          /\ UReturn(t, "raised")
    /\ UNCHANGED <<cfgVars, schedVars, detVars, restVars, clock, thrVars, fwVars, respVars, iocs,
                   last_updated, cacheFile, ufetched, usnap>>

\* Mutant: the cache is rewritten in place, so an interrupted rewrite leaves
\* it incomplete.
RewriteInterrupted(live, tmp) == Partial

\* Path.replace that did not complete: the rename is atomic, the live file
\* is as it was.
ReplaceInterrupted(live, tmp) == live

\* _save_cache, line 144: the temporary file replaces the cache, or the
\* rename raises.
UReplace(t) ==
    /\ upc[t] = "u_replace"
    /\ \/ /\ cacheFile' = tmpFile
          /\ tmpFile' = Absent
          /\ UReturn(t, "ok")
       \/ /\ cacheFile' = ReplaceInterrupted(cacheFile, tmpFile)
          /\ UNCHANGED tmpFile
          /\ UReturn(t, "raised")
    /\ UNCHANGED <<cfgVars, schedVars, detVars, restVars, clock, thrVars, fwVars, respVars, iocs,
                   last_updated, ufetched, usnap>>

\* The process dies inside _save_cache (lines 130-145): before or in the
\* middle of tmp.write_text, or before, in or after tmp.replace. Nothing of
\* the call runs afterwards.
UCrash(t) ==
    /\ upc[t] \in {"u_save", "u_replace"}
    /\ upc' = [upc EXCEPT ![t] = "crashed"]
    /\ IF upc[t] = "u_save"
          THEN /\ tmpFile' \in {tmpFile, Partial}
               /\ UNCHANGED cacheFile
          ELSE \/ /\ cacheFile' = ReplaceInterrupted(cacheFile, tmpFile)
                  /\ UNCHANGED tmpFile
               \/ /\ cacheFile' = tmpFile
                  /\ tmpFile' = Absent
    /\ UNCHANGED <<cfgVars, schedVars, detVars, restVars, clock, thrVars, fwVars, respVars, iocs,
                   last_updated, unow, collected, upending, ufetched, usnap, uresult, callLog>>

UpdateStep(t) == UFetch(t) \/ UCollect(t) \/ UCommit(t) \/ UStamp(t) \/ USave(t) \/ UReplace(t)

\* Time passes between calls.
UTickLen == ThrottleSeconds \div 2
StartClock == 2 * ThrottleSeconds

UTick ==
    /\ \A t \in Updaters : upc[t] = "idle"
    /\ clock + UTickLen <= StartClock + MaxTicks * UTickLen
    /\ clock' = clock + UTickLen
    /\ UNCHANGED <<cfgVars, schedVars, detVars, restVars, thrVars, fwVars, respVars, iocVars>>

(***************************************************************************)
(* ioc_scheduler                                                           *)
(***************************************************************************)
Scheduler == "scheduler"

\* start_ioc_scheduler, lines 33-64: a second call returns at the flag; an
\* interval that is not positive disables the scheduler; otherwise the
\* IOC-Scheduler thread is started.
StartIocScheduler ==
    /\ IF schedulerStarted
          THEN UNCHANGED <<schedulerStarted, spc>>
          ELSE /\ schedulerStarted' = TRUE
               /\ spc' = IF refreshHours <= 0 THEN spc ELSE "update"
    /\ UNCHANGED <<cfgVars, clock, thrVars, fwVars, respVars, iocVars, detVars, restVars,
                   refreshHours, stopAsked>>

\* _scheduler_loop, lines 54-56: `while True`, then engine.update_iocs().
SchedCall ==
    /\ spc = "update"
    /\ UpdateIocsCall(Scheduler)
    /\ spc' = "called"
    /\ UNCHANGED <<calls, refreshHours, schedulerStarted, stopAsked>>

\* _scheduler_loop, lines 56-61: update_iocs has returned, or has raised and
\* the loop caught it.
SchedReturned ==
    /\ spc = "called"
    /\ upc[Scheduler] = "idle"
    /\ spc' = "sleep"
    /\ UNCHANGED <<cfgVars, clock, thrVars, fwVars, respVars, iocVars, detVars, restVars,
                   refreshHours, schedulerStarted, stopAsked>>

\* The latest time of a run.
LastClock == StartClock + MaxTicks * UTickLen

\* _scheduler_loop, line 64: time.sleep(interval_hours * 3600) returns.
SchedWake ==
    /\ spc = "sleep"
    /\ spc' = "update"
    /\ clock' = IF clock + refreshHours * 3600 <= LastClock
                   THEN clock + refreshHours * 3600 ELSE clock
    /\ UNCHANGED <<cfgVars, thrVars, fwVars, respVars, iocVars, detVars, restVars,
                   refreshHours, schedulerStarted, stopAsked>>

SchedulerStep ==
    \/ SchedCall
    \/ spc = "called" /\ UpdateStep(Scheduler)
    \/ SchedReturned
    \/ SchedWake

\* The application asks its background threads to stop.
StopRequest ==
    /\ ~stopAsked
    /\ stopAsked' = TRUE
    /\ UNCHANGED <<cfgVars, clock, thrVars, fwVars, respVars, iocVars, detVars, restVars,
                   refreshHours, schedulerStarted, spc>>

(***************************************************************************)
(* DetectionEngine                                                         *)
(***************************************************************************)
\* core.rules.DETECTION_RULES, in its order.
RuleNames == <<
    "SQL Injection",
    "SQLi - Tautology / OR 1=1",
    "Command Injection / Shell",
    "XSS",
    "XSS - Advanced Payloads",
    "IDOR / Object Access Violation",
    "Unauthorized Admin Access",
    "Failed Login",
    "Credential Stuffing Probe",
    "Brute Force Attempt",
    "Sensitive File Access",
    "Debug / Error Exposure",
    "Plaintext Credential Exposure",
    "Weak Crypto Indicator",
    "Sensitive Data Over HTTP",
    "Serialized Object Detected (Java)",
    "Serialized Object Detected (Python)",
    "Serialized Object Detected (.NET)",
    "SSRF / Internal Resource Access",
    "Malicious Package Download",
    "CI/CD Script Execution",
    "Unexpected Build Dependency Fetch",
    "API Rate Abuse / Resource Exhaustion",
    "Excessive Data Exposure",
    "Repeated Error Without Alerting",
    "Unhandled Exception Exposure" >>

\* Sample payloads, as the normalizer leaves them (lower case).
Payloads == {
    "get /index.html http/1.1",
    "get /etc/passwd http/1.1",
    "post /login failed login",
    "get /search?q=<script>alert(1)</script>",
    "get /item?x=1 union select * from t",
    "nullpointerexception" }
Messages == {"", "failed login"}

\* The rules whose compiled pattern finds a match in the sample payload.
MatchedRules(payload) ==
    CASE payload = "get /etc/passwd http/1.1" -> {"Sensitive File Access"}
      [] payload = "post /login failed login" -> {"Failed Login"}
      [] payload = "failed login" -> {"Failed Login"}
      [] payload = "get /search?q=<script>alert(1)</script>" -> {"XSS"}
      [] payload = "get /item?x=1 union select * from t" ->
             {"SQL Injection", "SQLi - Tautology / OR 1=1"}
      [] payload = "nullpointerexception" ->
             {"Debug / Error Exposure", "Unhandled Exception Exposure"}
      [] OTHER -> {}

\* regex.search(payload) for the rule's compiled pattern.
RegexSearch(rule, payload) == rule \in MatchedRules(payload)

\* config.severity_map.THREAT_SEVERITY_MAP.get(name.strip(), "Low"); no name
\* here has outer white space.
GetSeverity(name) ==
    CASE name \in {"SQL Injection", "SQLi - Tautology / OR 1=1",
                   "Command Injection / Shell", "Sensitive File Access",
                   "SSRF / Internal Resource Access",
                   "Serialized Object Detected (Java)",
                   "Serialized Object Detected (Python)",
                   "Serialized Object Detected (.NET)",
                   "Malicious Package Download", "CI/CD Script Execution",
                   "Unexpected Build Dependency Fetch"} -> "Critical"
      [] name \in {"XSS", "XSS - Advanced Payloads", "Credential Stuffing Probe",
                   "Unauthorized Admin Access",
                   "Plaintext Credential Exposure"} -> "High"
      [] name \in {"IDOR / Object Access Violation", "Brute Force Attempt",
                   "Sensitive Data Over HTTP", "Debug / Error Exposure",
                   "API Rate Abuse / Resource Exhaustion",
                   "Unhandled Exception Exposure", "Directory Traversal"} -> "Medium"
      [] name \in {"Failed Login", "Weak Crypto Indicator",
                   "Excessive Data Exposure", "Repeated Error Without Alerting",
                   "Discovery / Recon Probes"} -> "Low"
      [] OTHER -> "Low"

\* Mutant: a hit on a Low rule jumps to High.
EscalateSkipsMedium(severity, ioc_hit) ==
    IF ~ioc_hit \/ severity \notin Severities THEN severity
    ELSE CASE severity = "Low" -> "High"
           [] severity = "Medium" -> "High"
           [] severity = "High" -> "Critical"
           [] severity = "Critical" -> "Critical"

\* DetectionEngine._escalate_severity
EscalateSeverity(severity, ioc_hit) ==
    IF ~ioc_hit \/ severity \notin Severities THEN severity
    ELSE CASE severity = "Low" -> "Medium"
           [] severity = "Medium" -> "High"
           [] severity = "High" -> "Critical"
           [] severity = "Critical" -> "Critical"

\* Mutant: a refresh empties the live set and fills it in place.
SetFilledInPlace ==
    IF \E t \in Updaters : upc[t] \in {"u_collect", "u_commit"}
    THEN collected[CHOOSE t \in Updaters : upc[t] \in {"u_collect", "u_commit"}]
    ELSE iocs

\* is_malicious, line 63: the set that self.iocs refers to at the call.
LookedUpSet == iocs

\* IOCEngine.is_malicious
IsMalicious(ip) ==
    IF ip = EmptyText \/ ip = UNKNOWN THEN FALSE ELSE ip \in LookedUpSet

\* analyze_entry, lines 63-68: the reputation check.
IocHit(ip) ==
    IF hasEngine /\ ip # EmptyText /\ ip # UNKNOWN THEN IsMalicious(ip) ELSE FALSE

\* analyze_entry, line 47: normalized_request, else message, else "".
PayloadOf(e) ==
    IF e.normalized_request # "" THEN e.normalized_request ELSE e.message

\* analyze_entry, lines 54-58: raw, else message (no entry here has "original").
RawOf(e) == IF e.raw # "" THEN e.raw ELSE e.message

\* analyze_entry, lines 73-91: the rules are tried in order and each match
\* appends one detection.
RECURSIVE MatchRules(_, _, _)
MatchRules(e, i, acc) ==
    IF i > Len(RuleNames) THEN acc
    ELSE IF RegexSearch(RuleNames[i], PayloadOf(e))
         THEN MatchRules(e, i + 1, Append(acc,
                 [ rule     |-> RuleNames[i],
                   severity |-> EscalateSeverity(GetSeverity(RuleNames[i]), IocHit(e.ip)),
                   ip       |-> e.ip,
                   time     |-> e.time,
                   payload  |-> PayloadOf(e),
                   raw      |-> RawOf(e),
                   ioc_hit  |-> IocHit(e.ip) ]))
         ELSE MatchRules(e, i + 1, acc)

ThreatIntelligenceMatch == "Threat Intelligence Match"

\* Mutant: the synthetic detection is added on every hit.
SyntheticOnEveryHit(ioc_hit, detections) == ioc_hit

\* analyze_entry, line 96.
SyntheticNeeded(ioc_hit, detections) == ioc_hit /\ detections = <<>>

\* DetectionEngine.analyze_entry
AnalyzeEntryResult(e) ==
    IF ~e.isdict THEN <<>>
    ELSE LET detections == MatchRules(e, 1, <<>>)
         IN  IF SyntheticNeeded(IocHit(e.ip), detections)
             THEN Append(detections,
                     [ rule     |-> ThreatIntelligenceMatch,
                       severity |-> "Critical",
                       ip       |-> e.ip,
                       time     |-> e.time,
                       payload  |-> "N/A (IP Reputation Match)",
                       raw      |-> RawOf(e),
                       ioc_hit  |-> TRUE ])
             ELSE detections

\* The entries handed to analyze_entry; a missing key reads as its default.
Entries ==
    [ isdict : {TRUE}, ip : {IpPublicA, IpPublicB, UNKNOWN},
      time : {"UNKNOWN", "10/Oct/2000:13:55:36 -0700"},
      normalized_request : Payloads \cup {""}, message : Messages,
      raw : {"", "raw line"} ]
NotADict ==
    [ isdict |-> FALSE, ip |-> UNKNOWN, time |-> "UNKNOWN",
      normalized_request |-> "", message |-> "", raw |-> "" ]

AnalyzeEntry(e) ==
    /\ entry' = e
    /\ result' = AnalyzeEntryResult(e)
    /\ UNCHANGED <<cfgVars, clock, thrVars, fwVars, respVars, iocVars, schedVars, hasEngine,
                   restVars>>

(***************************************************************************)
(* CorrelationEngine                                                       *)
(***************************************************************************)
\* The characters of the sample timestamps, ordered by code point, as
\* Python orders them when it compares two str.
CharOrder == <<" ", "-", "/", "0", "1", "2", "3", "4", "5", "6", "7", "8", "9",
               ":", "K", "N", "O", "T", "U", "W", "c", "o", "t", "v">>
CharCode(c) == CHOOSE i \in 1..Len(CharOrder) : CharOrder[i] = c

\* a < b for two str.
RECURSIVE StrLess(_, _)
StrLess(a, b) ==
    IF b = <<>> THEN FALSE
    ELSE IF a = <<>> THEN TRUE
    ELSE IF Head(a) = Head(b) THEN StrLess(Tail(a), Tail(b))
    ELSE CharCode(Head(a)) < CharCode(Head(b))

\* The digits s[i..j] as a number, or NoTime when one is not a digit.
RECURSIVE Num(_, _, _)
Num(s, i, j) ==
    IF j < i THEN 0
    ELSE IF s[j] \notin {"0", "1", "2", "3", "4", "5", "6", "7", "8", "9"} THEN NoTime
    ELSE LET rest == Num(s, i, j - 1)
         IN  IF rest = NoTime THEN NoTime
             ELSE 10 * rest + (CharCode(s[j]) - CharCode("0"))

\* time_str.split(" ")[0]
RECURSIVE FirstWord(_)
FirstWord(s) ==
    IF s = <<>> \/ Head(s) = " " THEN <<>> ELSE <<Head(s)>> \o FirstWord(Tail(s))

\* %b of the sample timestamps.
MonthOf(name) ==
    CASE name = <<"O", "c", "t">> -> 10
      [] name = <<"N", "o", "v">> -> 11
      [] OTHER -> 0

IsLeap(y) == (y % 4 = 0 /\ y % 100 # 0) \/ y % 400 = 0
DaysBeforeMonth(y, m) ==
    <<0, 31, 59, 90, 120, 151, 181, 212, 243, 273, 304, 334>>[m]
        + (IF m > 2 /\ IsLeap(y) THEN 1 ELSE 0)
DaysInMonth(y, m) ==
    IF m = 2 THEN (IF IsLeap(y) THEN 29 ELSE 28)
    ELSE <<31, 28, 31, 30, 31, 30, 31, 31, 30, 31, 30, 31>>[m]

\* Days from 0001-01-01 to 1970-01-01.
EpochDays == 719162

\* A naive datetime, in seconds since 1970-01-01 00:00:00; NoTime when the
\* fields do not make a date.
DateTime(y, mo, d, h, mi, sec) ==
    IF \/ NoTime \in {y, mo, d, h, mi, sec}
       \/ y < 1 \/ mo < 1 \/ mo > 12 \/ d < 1 \/ h > 23 \/ mi > 59 \/ sec > 59
    THEN NoTime
    ELSE IF d > DaysInMonth(y, mo) THEN NoTime
    ELSE LET yy   == y - 1
             days == 365 * yy + (yy \div 4) - (yy \div 100) + (yy \div 400)
                        + DaysBeforeMonth(y, mo) + (d - 1) - EpochDays
         IN  ((days * 24 + h) * 60 + mi) * 60 + sec

\* datetime.fromisoformat for "YYYY-MM-DDTHH:MM:SS"; NoTime when it raises.
FromIsoFormat(s) ==
    IF Len(s) = 19 /\ s[5] = "-" /\ s[8] = "-" /\ s[14] = ":" /\ s[17] = ":"
    THEN DateTime(Num(s, 1, 4), Num(s, 6, 7), Num(s, 9, 10),
                  Num(s, 12, 13), Num(s, 15, 16), Num(s, 18, 19))
    ELSE NoTime

\* datetime.strptime(word, "%d/%b/%Y:%H:%M:%S"); NoTime when it raises.
StrpTime(w) ==
    IF /\ Len(w) = 20 /\ w[3] = "/" /\ w[7] = "/" /\ w[12] = ":" /\ w[15] = ":"
       /\ w[18] = ":" /\ MonthOf(SubSeq(w, 4, 6)) # 0
    THEN DateTime(Num(w, 8, 11), MonthOf(SubSeq(w, 4, 6)), Num(w, 1, 2),
                  Num(w, 13, 14), Num(w, 16, 17), Num(w, 19, 20))
    ELSE NoTime

\* datetime.utcnow() during the call: after every sample timestamp.
UtcNow == DateTime(2026, 11, 1, 12, 0, 0)

\* CorrelationEngine._parse_time
ParseTime(time_str) ==
    IF time_str = EmptyText \/ time_str = UNKNOWN THEN UtcNow
    ELSE IF FromIsoFormat(time_str) # NoTime THEN FromIsoFormat(time_str)
    ELSE IF StrpTime(FirstWord(time_str)) # NoTime THEN StrpTime(FirstWord(time_str))
    ELSE UtcNow

\* timedelta(minutes=5), in seconds.
TimeWindow == 5 * 60

\* Sample timestamps, in the access-log format: three of one afternoon, one
\* of a month later, and the sentinel of an entry without a time.
OctTenth == <<"1", "0", "/", "O", "c", "t", "/", "2", "0", "0", "0", ":">>
NovTenth == <<"1", "0", "/", "N", "o", "v", "/", "2", "0", "0", "0", ":">>
Zone     == <<" ", "-", "0", "7", "0", "0">>
TimeA == OctTenth \o <<"1", "3", ":", "5", "5", ":", "3", "6">> \o Zone
TimeB == OctTenth \o <<"1", "3", ":", "5", "8", ":", "0", "0">> \o Zone
TimeC == OctTenth \o <<"1", "4", ":", "0", "2", ":", "0", "0">> \o Zone

TimeD == NovTenth \o <<"1", "3", ":", "5", "5", ":", "3", "6">> \o Zone

SampleTimes == {TimeA, TimeB, TimeC, TimeD, UNKNOWN}

\* _parse_time and the comparison of two time texts, tabulated for the
\* sample timestamps.
ParsedTime == [t \in SampleTimes |-> ParseTime(t)]
TimeLess   == [a \in SampleTimes |-> [b \in SampleTimes |-> StrLess(a, b)]]

\* The rule names that contain the text.
NamesContaining(needle) ==
    CASE needle = "Failed Login" -> {"Failed Login"}
      [] needle = "Scanner" -> {"Port Scanner"}

\* needle in e.get("rule", "")
RuleContains(e, needle) == e.rule \in NamesContaining(needle)

\* The lists of correlate hold references to the dicts of the input; an
\* event is named here by its position in `batch`.
\* correlate, lines 49-51: the addresses in order of first appearance.
RECURSIVE GroupedIps(_, _)
GroupedIps(i, acc) ==
    IF i > Len(batch) THEN acc
    ELSE IF \E k \in 1..Len(acc) : acc[k] = batch[i].ip
         THEN GroupedIps(i + 1, acc)
         ELSE GroupedIps(i + 1, Append(acc, batch[i].ip))

\* grouped_by_ip[ip]
EventsOf(ip) == SelectSeq([i \in 1..Len(batch) |-> i], LAMBDA i : batch[i].ip = ip)

\* events.sort(key=time): a stable sort on the time text.
RECURSIVE InsertByTime(_, _)
InsertByTime(sorted, i) ==
    IF sorted = <<>> THEN <<i>>
    ELSE IF TimeLess[batch[i].time][batch[Head(sorted)].time]
         THEN <<i>> \o sorted
         ELSE <<Head(sorted)>> \o InsertByTime(Tail(sorted), i)
RECURSIVE SortByTime(_)
SortByTime(events) ==
    IF events = <<>> THEN <<>>
    ELSE InsertByTime(SortByTime(SubSeq(events, 1, Len(events) - 1)),
                      events[Len(events)])

\* CorrelationEngine._filter_time_window; _parse_time raises nothing and all
\* its results are naive datetimes.
FilterTimeWindow(events) ==
    IF events = <<>> THEN <<>>
    ELSE LET latest_time == ParsedTime[batch[events[Len(events)]].time]
             cutoff      == latest_time - TimeWindow
         IN  SelectSeq(events, LAMBDA i : ParsedTime[batch[i].time] >= cutoff)

\* Mutant: more than five failed logins are needed.
BruteForceAboveFive(n) == n > 5

\* _analyze_ip, line 134.
BruteForceThreshold(n) == n >= 5

\* Mutant: more than ten events are needed.
HighVolumeAboveTen(n) == n > 10

\* _analyze_ip, line 186.
HighVolumeThreshold(n) == n >= 10

AnyIocHit(events) == \E k \in 1..Len(events) : batch[events[k]].ioc_hit

Incident(ip, type, severity, evidence) ==
    [ ip |-> ip, type |-> type, severity |-> severity, count |-> Len(evidence),
      ioc_confirmed |-> AnyIocHit(evidence), evidence |-> evidence ]

\* CorrelationEngine._analyze_ip
AnalyzeIp(ip, events) ==
    IF events = <<>> THEN <<>>
    ELSE LET failed_logins == SelectSeq(events, LAMBDA i : RuleContains(batch[i], "Failed Login"))
             scanner_hits  == SelectSeq(events, LAMBDA i : RuleContains(batch[i], "Scanner"))
             exploit_hits  == SelectSeq(events, LAMBDA i : batch[i].severity = "Critical")
         IN  (IF BruteForceThreshold(Len(failed_logins))
                 THEN <<Incident(ip, "Brute Force Login Attack", "High", failed_logins)>>
                 ELSE <<>>)
             \o
             (IF scanner_hits # <<>> /\ exploit_hits # <<>>
                 THEN << [ Incident(ip, "Reconnaissance Followed by Exploitation",
                                    "Critical", scanner_hits \o exploit_hits)
                           EXCEPT !.ioc_confirmed = AnyIocHit(exploit_hits) ] >>
                 ELSE <<>>)
             \o
             (IF Len(exploit_hits) >= 3
                 THEN <<Incident(ip, "Repeated Critical Attack Attempts", "Critical",
                                 exploit_hits)>>
                 ELSE <<>>)
             \o
             (IF HighVolumeThreshold(Len(events))
                 THEN <<Incident(ip, "High Volume Suspicious Activity", "Medium", events)>>
                 ELSE <<>>)

\* recent_events of correlate, line 57.
RecentEvents(ip) == FilterTimeWindow(SortByTime(EventsOf(ip)))

\* CorrelationEngine.correlate
RECURSIVE CorrelateIps(_)
CorrelateIps(ips) ==
    IF ips = <<>> THEN <<>>
    ELSE AnalyzeIp(Head(ips), RecentEvents(Head(ips))) \o CorrelateIps(Tail(ips))
CorrelateResult == CorrelateIps(GroupedIps(1, <<>>))

\* The detections a batch is made of.
CorrDetection(ip, time, rule, severity, ioc_hit) ==
    [ rule |-> rule, severity |-> severity, ip |-> ip, time |-> time,
      ioc_hit |-> ioc_hit ]
CorrPool == {
    CorrDetection(IpPublicA, TimeA, "Failed Login", "Low", FALSE),
    CorrDetection(IpPublicA, TimeC, "Failed Login", "Medium", TRUE),
    CorrDetection(IpPublicA, TimeB, "SQL Injection", "Critical", FALSE),
    CorrDetection(IpPublicB, TimeA, "Failed Login", "Low", FALSE),
    CorrDetection(IpPublicA, TimeD, "Failed Login", "Low", FALSE),
    CorrDetection(IpPublicA, UNKNOWN, "Failed Login", "Low", FALSE) }

\* n times the detection.
Repeat(d, n) == [i \in 1..n |-> d]

\* Batches around the thresholds of the four rules: for one address, 0, 4 or
\* 5 failed logins and 0, 1 or 2 other events four minutes before the latest
\* event, 0 or 1 scanner event (Low or itself Critical) and 0, 2 or 3
\* Critical events at the latest time, and 0 or 1 failed login from before
\* the window; with or without events of a second address in between; the
\* scanner event and the Critical events with or without an IOC hit.
FailedCounts   == {0, 4, 5}
ScannerCounts  == {0, 1}
CriticalCounts == {0, 2, 3}
OtherCounts    == {0, 1, 2}
OldCounts      == {0, 1}
ScannerSeverities == {"Low", "Critical"}
ThresholdBatch(f, sc, scSev, scHit, c, cHit, o, old, b) ==
    Repeat(CorrDetection(IpPublicA, TimeA, "Failed Login", "Low", FALSE), old)
    \o Repeat(CorrDetection(IpPublicA, TimeC, "SQL Injection", "Critical", cHit), c)
    \o Repeat(CorrDetection(IpPublicB, TimeC, "Port Scanner", "Low", FALSE), b)
    \o Repeat(CorrDetection(IpPublicA, TimeB, "Failed Login", "Low", FALSE), f)
    \o Repeat(CorrDetection(IpPublicA, TimeC, "Port Scanner", scSev, scHit), sc)
    \o Repeat(CorrDetection(IpPublicA, TimeB, "XSS", "Medium", FALSE), o)
ThresholdBatches ==
    {ThresholdBatch(f, sc, scSev, scHit, c, cHit, o, old, b) :
        f \in FailedCounts, sc \in ScannerCounts, scSev \in ScannerSeverities,
        scHit \in BOOLEAN, c \in CriticalCounts, cHit \in BOOLEAN,
        o \in OtherCounts, old \in OldCounts, b \in {0, 1}}

\* The caller builds the batch, one detection after the other.
AddDetection(d) ==
    /\ Len(batch) < MaxBatch
    /\ batch' = Append(batch, d)
    /\ correlated' = FALSE
    /\ incidents' = <<>>
    /\ UNCHANGED <<coreVars, normVars, tailVars>>

\* Mutant: the sort acts on the list the caller handed in.
InputSortedInPlace(detections) ==
    LET order == SortByTime([i \in 1..Len(detections) |-> i])
    IN  [i \in 1..Len(detections) |-> detections[order[i]]]

\* The caller's list after correlate, lines 49-55: the detections are
\* appended to new per-address lists, the sort reorders those lists, and no
\* dict is written to.
InputAfterCorrelate(detections) == detections

Correlate ==
    /\ ~correlated
    /\ incidents' = CorrelateResult
    /\ batch' = InputAfterCorrelate(batch)
    /\ correlated' = TRUE
    /\ UNCHANGED <<coreVars, normVars, tailVars>>

(***************************************************************************)
(* Normalizer                                                              *)
(***************************************************************************)
\* core.normalizer.MAX_LEN and HALF_LEN
MAX_LEN == 2000
HALF_LEN == MAX_LEN \div 2

\* A control character (not printable), as one element of a text.
NUL == "NUL"
\* The place of a character that a decoding step removed.
Hole == ""

HexDigits == {"0", "1", "2", "3", "4", "5", "6", "7", "8", "9",
              "a", "b", "c", "d", "e", "f", "A", "B", "C", "D", "E", "F"}

\* The character of a %XX escape, for the escapes of the sample payloads.
HexPairChar(hi, lo) ==
    CASE hi = "2" /\ lo = "5" -> "%"
      [] hi = "2" /\ lo = "7" -> "'"
      [] hi = "2" /\ lo \in {"b", "B"} -> "+"
      [] hi = "2" /\ lo = "6" -> "&"
      [] hi = "0" /\ lo = "0" -> NUL

\* A %XX escape starts at position i of t.
IsEscape(t, i) ==
    /\ i >= 1 /\ i + 2 <= Len(t)
    /\ t[i] = "%" /\ t[i + 1] \in HexDigits /\ t[i + 2] \in HexDigits

\* urllib.parse.unquote_plus: "+" becomes a space, then every %XX escape
\* becomes its character; a "%" that starts no escape stays.
UnquotePlus(s) ==
    LET t == [i \in 1..Len(s) |-> IF s[i] = "+" THEN " " ELSE s[i]]
        m == [i \in 1..Len(t) |->
                 IF IsEscape(t, i) THEN HexPairChar(t[i + 1], t[i + 2])
                 ELSE IF IsEscape(t, i - 1) \/ IsEscape(t, i - 2) THEN Hole
                 ELSE t[i]]
    IN  SelectSeq(m, LAMBDA c : c # Hole)

\* The length of the character reference that starts at position i of t
\* (0 when none does): &amp and &lt, with or without the semicolon.
EntityLen(t, i) ==
    IF i < 1 \/ i > Len(t) THEN 0
    ELSE IF t[i] # "&" THEN 0
    ELSE IF i + 3 <= Len(t) /\ SubSeq(t, i + 1, i + 3) = <<"a", "m", "p">>
         THEN (IF i + 4 <= Len(t) /\ t[i + 4] = ";" THEN 5 ELSE 4)
    ELSE IF i + 2 <= Len(t) /\ SubSeq(t, i + 1, i + 2) = <<"l", "t">>
         THEN (IF i + 3 <= Len(t) /\ t[i + 3] = ";" THEN 4 ELSE 3)
    ELSE 0
EntityChar(t, i) == IF t[i + 1] = "a" THEN "&" ELSE "<"

\* html.unescape
HtmlUnescape(t) ==
    LET m == [i \in 1..Len(t) |->
                 IF EntityLen(t, i) > 0 THEN EntityChar(t, i)
                 ELSE IF \E j \in 1..4 : EntityLen(t, i - j) > j THEN Hole
                 ELSE t[i]]
    IN  SelectSeq(m, LAMBDA c : c # Hole)

\* recursive_decode, max_depth
DecodeDepth == 3

\* recursive_decode, lines 48-61
RECURSIVE DecodeLoop(_, _)
DecodeLoop(current, rounds) ==
    IF rounds = 0 THEN current
    ELSE LET decoded == HtmlUnescape(UnquotePlus(current))
         IN  IF decoded = current THEN current
             ELSE DecodeLoop(decoded, rounds - 1)

\* core.normalizer.recursive_decode
RecursiveDecode(text) ==
    IF text = EmptyText THEN EmptyText ELSE DecodeLoop(text, DecodeDepth)

\* core.normalizer._strip_control_chars
StripControlChars(text) == SelectSeq(text, LAMBDA ch : ch # NUL)

\* str.lower, for the letters of the sample payloads.
LowerChar(c) ==
    CASE c = "A" -> "a" [] c = "B" -> "b" [] c = "G" -> "g"
      [] c = "E" -> "e" [] c = "T" -> "t" [] OTHER -> c
Lower(text) == [i \in 1..Len(text) |-> LowerChar(text[i])]

\* normalize_log_entry, lines 105-113
LengthGuard(text) ==
    IF Len(text) > MAX_LEN
    THEN SubSeq(text, 1, HALF_LEN) \o <<".", ".", ".">>
            \o SubSeq(text, Len(text) - HALF_LEN + 1, Len(text))
    ELSE text

NormalizeText(text) == LengthGuard(Lower(StripControlChars(RecursiveDecode(text))))

\* core.normalizer.normalize_log_entry, for an entry that is a dict
NormalizeLogEntry(e) ==
    [ request |-> e.request, raw |-> e.raw,
      normalized_request |-> NormalizeText(e.request),
      normalized_raw     |-> NormalizeText(e.raw) ]

\* The pieces the sample requests are made of.
Pieces == { <<"%", "2", "5">>, <<"2", "5">>, <<"2", "7">>, <<"+">>,
            <<"%", "2", "B">>, <<"&", "a", "m", "p", ";">>, <<"l", "t", ";">>,
            <<"%", "0", "0">>, <<"G">> }
\* A run of 2001 characters.
LongRun == [i \in 1..(MAX_LEN + 1) |-> "x"]
\* The request line before the payload.
Method == <<"G", "E", "T", " ">>

\* The caller builds a request, piece by piece, optionally ending in a long
\* run.
AddPiece(p) ==
    /\ nPhase = "input"
    /\ nPieces < MaxPieces
    /\ Len(nEntry.request) <= MAX_LEN
    /\ nPieces' = nPieces + 1
    /\ nEntry' = [nEntry EXCEPT !.request = @ \o p]
    /\ UNCHANGED <<coreVars, corrVars, tailVars, nPhase, nOut, nAgain>>

AddLongRun ==
    /\ nPhase = "input"
    /\ nPieces <= 1 /\ Len(nEntry.request) <= MAX_LEN
    /\ nEntry' = [nEntry EXCEPT !.request = @ \o LongRun]
    /\ UNCHANGED <<coreVars, corrVars, tailVars, nPhase, nPieces, nOut, nAgain>>

\* normalize_log_entry(entry); raw is the whole line.
Normalize ==
    /\ nPhase = "input"
    /\ nEntry' = [nEntry EXCEPT !.raw = Method \o nEntry.request]
    /\ nOut' = NormalizeLogEntry(nEntry')
    /\ nPhase' = "normalized"
    /\ UNCHANGED <<coreVars, corrVars, tailVars, nPieces, nAgain>>

\* normalize_log_entry applied to the normalized fields.
NormalizeAgain ==
    /\ nPhase = "normalized"
    /\ nAgain' = NormalizeLogEntry([request |-> nOut.normalized_request,
                                    raw     |-> nOut.normalized_raw])
    /\ nPhase' = "again"
    /\ UNCHANGED <<coreVars, corrVars, tailVars, nPieces, nEntry, nOut>>

(***************************************************************************)
(* LiveLogTailer                                                           *)
(***************************************************************************)
\* self._file is None; self._last_inode is None.
NoFile == 0
NoSignature == <<0, 0>>
NewLine == "\n"

\* The text of the k-th line the writer appends, without its newline.
LineText(k) == << <<"1", "2", "3", "4">>[k] >>

\* The inode of the log path before a rotation.
FirstInode == 1

\* str.rstrip("\n")
RECURSIVE RStripNewLines(_)
RStripNewLines(s) ==
    IF s # <<>> /\ s[Len(s)] = NewLine
    THEN RStripNewLines(SubSeq(s, 1, Len(s) - 1)) ELSE s

\* The offset after the first newline that follows offset p of the text, or
\* the end of the text when none follows.
RECURSIVE LineEnd(_, _)
LineEnd(text, p) ==
    IF p >= Len(text) THEN Len(text)
    ELSE IF text[p + 1] = NewLine THEN p + 1
    ELSE LineEnd(text, p + 1)

\* file.readline() at offset p: the text returned.
ReadLine(text, p) == SubSeq(text, p + 1, LineEnd(text, p))

\* LiveLogTailer.start, line 48.
TailStart ==
    /\ tpc = "init"
    /\ tRunning' = TRUE
    /\ tpc' = "loop"
    /\ UNCHANGED <<tailFrame, tFile, tPos, tLastInode, tStat, fileVars, tailGhost>>

\* start, line 51: the loop condition; line 77 (_close_file) when it is false.
TailLoop ==
    /\ tpc = "loop"
    /\ IF tRunning
          THEN /\ tpc' = "stat"
               /\ UNCHANGED <<tFile, tLastInode, tPos>>
          ELSE /\ tpc' = "done"
               /\ tFile' = NoFile
               /\ tLastInode' = NoSignature
               /\ tPos' = 0
    /\ UNCHANGED <<tailFrame, tRunning, tStat, fileVars, tailGhost>>

\* _open_if_needed, lines 94-95: os.stat and the (inode, size) signature.
TailStat ==
    /\ tpc = "stat"
    /\ tStat' = <<pathInode, Len(files[pathInode])>>
    /\ tpc' = "open"
    /\ UNCHANGED <<tailFrame, tRunning, tFile, tPos, tLastInode, fileVars, tailGhost>>

\* Mutant: the reopened file is read from its start.
SeekStart(text) == 0

\* _open_if_needed, line 106: self._file.seek(0, os.SEEK_END).
SeekEnd(text) == Len(text)

\* The complete lines of a text, without their newlines.
RECURSIVE CompleteLines(_, _)
CompleteLines(text, p) ==
    IF LineEnd(text, p) = p \/ text[LineEnd(text, p)] # NewLine THEN {}
    ELSE {RStripNewLines(ReadLine(text, p))} \cup CompleteLines(text, LineEnd(text, p))

\* _open_if_needed, line 98.
ReopenNeeded(file, sig, last) == file = NoFile \/ sig # last

\* _open_if_needed, lines 98-108: open the path and seek to its end.
TailOpen ==
    /\ tpc = "open"
    /\ IF ReopenNeeded(tFile, tStat, tLastInode)
          THEN /\ tFile' = pathInode
               /\ tPos' = SeekEnd(files[pathInode])
               /\ tLastInode' = tStat
               /\ opened' = TRUE
               /\ presentAtOpen' = presentAtOpen \cup CompleteLines(files[pathInode], 0)
          ELSE UNCHANGED <<tFile, tPos, tLastInode, opened, presentAtOpen>>
    /\ tpc' = "read"
    /\ UNCHANGED <<tailFrame, tRunning, tStat, fileVars, stopRequested, delivered,
                   afterOpen, disturbed, fragAfterOpen>>

\* start, lines 55-62: readline, then the callback or the sleep.
TailRead ==
    /\ tpc = "read"
    /\ LET line == ReadLine(files[tFile], tPos)
       IN  IF line # <<>>
           THEN /\ delivered' = Append(delivered, RStripNewLines(line))
                /\ tPos' = tPos + Len(line)
           ELSE UNCHANGED <<delivered, tPos>>
    /\ tpc' = "loop"
    /\ UNCHANGED <<tailFrame, tRunning, tFile, tLastInode, tStat, fileVars,
                   stopRequested, afterOpen, opened, disturbed, fragAfterOpen, presentAtOpen>>

TailerStep == TailStart \/ TailLoop \/ TailStat \/ TailOpen \/ TailRead

\* LiveLogTailer.stop, called from another thread.
TailStop ==
    /\ ~stopRequested
    /\ stopRequested' = TRUE
    /\ tRunning' = FALSE
    /\ UNCHANGED <<tailFrame, tpc, tFile, tPos, tLastInode, tStat, fileVars,
                   delivered, afterOpen, opened, disturbed, fragAfterOpen, presentAtOpen>>

\* The writer of the log appends the next line, newline included.
WriteLine ==
    /\ written < MaxLines /\ ~partial
    /\ written' = written + 1
    /\ files' = [files EXCEPT ![pathInode] = @ \o LineText(written + 1) \o <<NewLine>>]
    /\ afterOpen' = IF opened THEN afterOpen \cup {written + 1} ELSE afterOpen
    /\ UNCHANGED <<tailFrame, tailerVars, pathInode, partial, stopRequested, delivered,
                   opened, disturbed, fragAfterOpen, presentAtOpen>>

\* The writer appends the text of the next line, and its newline later.
WriteFragment ==
    /\ written < MaxLines /\ ~partial
    /\ partial' = TRUE
    /\ fragAfterOpen' = opened
    /\ files' = [files EXCEPT ![pathInode] = @ \o LineText(written + 1)]
    /\ UNCHANGED <<tailFrame, tailerVars, pathInode, written, stopRequested, delivered,
                   afterOpen, opened, disturbed, presentAtOpen>>

WriteRest ==
    /\ partial
    /\ partial' = FALSE
    /\ written' = written + 1
    /\ files' = [files EXCEPT ![pathInode] = @ \o <<NewLine>>]
    /\ afterOpen' = IF fragAfterOpen THEN afterOpen \cup {written + 1} ELSE afterOpen
    /\ fragAfterOpen' = FALSE
    /\ UNCHANGED <<tailFrame, tailerVars, pathInode, stopRequested, delivered,
                   opened, disturbed, presentAtOpen>>

\* Log rotation: the path names a new, empty file.
Rotate ==
    /\ pathInode = FirstInode /\ ~partial
    /\ pathInode' = FirstInode + 1
    /\ disturbed' = TRUE
    /\ UNCHANGED <<tailFrame, tailerVars, files, written, partial, stopRequested,
                   delivered, afterOpen, opened, fragAfterOpen, presentAtOpen>>

(***************************************************************************)
(* AlertManager                                                            *)
(***************************************************************************)
\* AlertManager._cooldown, in seconds.
Cooldown == 30

\* The invocations of send_batch_alerts; each starts its own thread.
MaxAlerts == 3
Invocations == 1..MaxAlerts

\* Mutant: the rate limit lasts half the cooldown.
WithinHalfCooldown(last, now) == last # NoTime /\ now - last < Cooldown \div 2

\* _send_batch_safe, line 103.
WithinCooldown(last, now) == last # NoTime /\ now - last < Cooldown

alertFrame == <<cfgVars, thrVars, fwVars, respVars, iocVars, schedVars, detVars,
                corrVars, normVars, tailVars>>

\* send_batch_alerts, lines 78-92: the feature flag and the configuration
\* are checked and the sender thread is started. The detections handed in
\* are not empty.
SendBatchAlerts(i) ==
    /\ apc[i] = "new"
    /\ apc' = [apc EXCEPT ![i] = IF features.EMAIL_ALERTS /\ configValid
                                 THEN "limit" ELSE "returned"]
    /\ UNCHANGED <<alertFrame, clock, configValid, lastSent, messages, passed>>

\* _send_batch_safe, lines 101-106: `now`, the cooldown check and the
\* assignment of _last_sent, in one `with self._lock` block.
RateLimit(i) ==
    /\ apc[i] = "limit"
    /\ IF WithinCooldown(lastSent, clock)
          THEN /\ apc' = [apc EXCEPT ![i] = "suppressed"]
               /\ UNCHANGED <<lastSent, passed>>
          ELSE /\ lastSent' = clock
               /\ passed' = Append(passed, clock)
               /\ apc' = [apc EXCEPT ![i] = "smtp"]
    /\ UNCHANGED <<alertFrame, clock, configValid, messages>>

\* _send_batch_safe, lines 108-154: the message is built and handed to the
\* SMTP server; the connection, the login or send_message may raise, and the
\* handler only logs.
SmtpSend(i) ==
    /\ apc[i] = "smtp"
    /\ \/ /\ messages' = [messages EXCEPT ![i] = @ + 1]
          /\ apc' = [apc EXCEPT ![i] = "sent"]
       \/ /\ messages' \in {messages, [messages EXCEPT ![i] = @ + 1]}
          /\ apc' = [apc EXCEPT ![i] = "failed"]
    /\ UNCHANGED <<alertFrame, clock, configValid, lastSent, passed>>

\* Time passes, also while sender threads run.
AlertTickLen == Cooldown \div 2

AlertTick ==
    /\ clock + AlertTickLen <= MaxTicks * AlertTickLen
    /\ clock' = clock + AlertTickLen
    /\ UNCHANGED <<alertFrame, alertVars>>

(***************************************************************************)
(* Specifications                                                          *)
(***************************************************************************)

InitThreads ==
    /\ pc = [t \in Threads |-> "idle"]
    /\ det = [t \in Threads |-> EmptyDetection]
    /\ nowL = [t \in Threads |-> 0]
    /\ fwArg = [t \in Threads |-> NoArg]
    /\ fwRet = [t \in Threads |-> "idle"]
    /\ fwMethod = [t \in Threads |-> "audit-only"]
    /\ fwResult = [t \in Threads |-> FALSE]
    /\ calls = 0

InitResponse ==
    /\ handled = EmptyMap
    /\ pdfLatch = FALSE
    /\ reports = 0
    /\ alerted = [t \in Threads |-> FALSE]
    /\ asked = [t \in Threads |-> FALSE]
    /\ signalled = [t \in Threads |-> FALSE]
    /\ failed = [t \in Threads |-> {}]
    /\ prevRun = [t \in Threads |-> NoTime]
    /\ lastRun = EmptyMap
    /\ outcome = [t \in Threads |-> "none"]

InitFirewall ==
    /\ blockedFile = EmptyMap
    /\ ledgerTorn = FALSE
    /\ ledgerPending = NoWrite
    /\ viewSaw = "nothing"
    /\ netsh = [i \in SampleIps |-> 0]

InitUpdaters ==
    /\ upc = [t \in Updaters |-> "idle"]
    /\ unow = [t \in Updaters |-> 0]
    /\ collected = [t \in Updaters |-> {}]
    /\ upending = [t \in Updaters |-> <<>>]
    /\ ufetched = [t \in Updaters |-> FALSE]
    /\ usnap = [t \in Updaters |-> [iocs |-> {}, last_updated |-> 0]]
    /\ uresult = [t \in Updaters |-> "none"]
    /\ callLog = <<>>
    /\ tmpFile = Absent

\* IOCEngine.__init__ found no cache and its first update loaded nothing.
InitIocEmpty ==
    /\ iocs = {}
    /\ last_updated = 0
    /\ cacheFile = Absent

InitCorrelation ==
    /\ batch = <<>>
    /\ correlated = FALSE
    /\ incidents = <<>>

NoEntry == [request |-> EmptyText, raw |-> EmptyText]
NoOutput ==
    [ request |-> EmptyText, raw |-> EmptyText,
      normalized_request |-> EmptyText, normalized_raw |-> EmptyText ]

InitNormalizer ==
    /\ nEntry = NoEntry
    /\ nPieces = 0
    /\ nPhase = "input"
    /\ nOut = NoOutput
    /\ nAgain = NoOutput

\* LiveLogTailer.__init__, and a log file that holds one line already.
InitTailer ==
    /\ tpc = "init"
    /\ tRunning = FALSE
    /\ tFile = NoFile
    /\ tPos = 0
    /\ tLastInode = NoSignature
    /\ tStat = NoSignature
    /\ files = [i \in {FirstInode, FirstInode + 1} |->
                   IF i = FirstInode THEN <<"0", NewLine>> ELSE <<>>]
    /\ pathInode = FirstInode
    /\ written = 0
    /\ partial = FALSE
    /\ stopRequested = FALSE
    /\ delivered = <<>>
    /\ afterOpen = {}
    /\ opened = FALSE
    /\ disturbed = FALSE
    /\ fragAfterOpen = FALSE
    /\ presentAtOpen = {}

\* start_ioc_scheduler was not called.
InitScheduler ==
    /\ refreshHours = 1
    /\ schedulerStarted = FALSE
    /\ spc = "off"
    /\ stopAsked = FALSE

\* AlertManager.__init__
InitAlerter ==
    /\ configValid = TRUE
    /\ lastSent = NoTime
    /\ apc = [i \in Invocations |-> "new"]
    /\ messages = [i \in Invocations |-> 0]
    /\ passed = <<>>

\* The components that a specification leaves idle.
InitRest ==
    /\ InitScheduler
    /\ InitCorrelation
    /\ InitNormalizer
    /\ InitTailer
    /\ InitAlerter

InitDetector ==
    /\ hasEngine = TRUE
    /\ entry = NotADict
    /\ result = <<>>

\* A ResponseEngine and its FirewallController after construction, under
\* every AUTO_BLOCK setting, on Windows and on a platform that block_ip only
\* audits (Linux; any other platform takes the same path).
Init ==
    /\ InitUpdaters
    /\ InitIocEmpty
    /\ InitDetector
    /\ InitRest
    /\ autoBlock \in [enabled : BOOLEAN, require_ioc : BOOLEAN]
    /\ features = [EMAIL_ALERTS |-> TRUE, EMAIL_ALL_DETECTIONS |-> FALSE]
    /\ osType \in {"Windows", "Linux"}
    /\ clock = 0
    /\ InitThreads
    /\ InitFirewall
    /\ InitResponse

\* Concurrent handle_detection calls on one ResponseEngine.
Next ==
    \/ \E t \in Threads, d \in ConcDetections : HandleDetection(t, d)
    \/ \E t \in Threads : ResponseStep(t)
    \/ \E t \in Threads : FirewallStep(t)
    \/ ResetLatch

Spec == Init /\ [][Next]_vars

\* handle_detection calls one after the other, from one thread.
NextSeq ==
    \/ \E d \in Detections \cup {EmptyDetection} : HandleDetection(MainThread, d)
    \/ ResponseStep(MainThread)
    \/ FirewallStep(MainThread)
    \/ ResetLatch
    \/ Tick

SpecSeq == Init /\ [][NextSeq]_vars

\* The sequential response path under every setting of FEATURES, with
\* auto-block on.
InitAlert ==
    /\ InitUpdaters
    /\ InitIocEmpty
    /\ InitDetector
    /\ InitRest
    /\ autoBlock = [enabled |-> TRUE, require_ioc |-> TRUE]
    /\ features \in [EMAIL_ALERTS : BOOLEAN, EMAIL_ALL_DETECTIONS : BOOLEAN]
    /\ osType = "Windows"
    /\ clock = 0
    /\ InitThreads
    /\ InitFirewall
    /\ InitResponse

NextAlert ==
    \/ \E d \in Detections \cup {EmptyDetection} : HandleDetection(MainThread, d)
    \/ ResponseStep(MainThread)
    \/ FirewallStep(MainThread)
    \/ ResetLatch

SpecAlert == InitAlert /\ [][NextAlert]_vars

\* Direct, concurrent calls of FirewallController.block_ip.
NextFirewall ==
    \/ \E t \in Threads, ip \in SampleIps, r \in Reasons, ioc \in BOOLEAN :
          BlockIpCall(t, ip, r, ioc)
    \/ \E t \in Threads : FirewallStep(t)
    \/ \E t \in Threads : FwCrash(t)
    \/ LoadBlockedIps

SpecFirewall == Init /\ [][NextFirewall]_vars

\* The IOCEngine after construction: no cache and a first update that loaded
\* nothing; or a cache, fresh or older than the throttle.
InitIOC ==
    /\ autoBlock = [enabled |-> FALSE, require_ioc |-> TRUE]
    /\ features = [EMAIL_ALERTS |-> TRUE, EMAIL_ALL_DETECTIONS |-> FALSE]
    /\ osType = "Linux"
    /\ clock = StartClock
    /\ InitThreads
    /\ InitFirewall
    /\ InitResponse
    /\ InitUpdaters
    /\ InitDetector
    /\ InitRest
    /\ \/ InitIocEmpty
       \/ \E stamp \in {StartClock, StartClock - ThrottleSeconds} :
             /\ iocs = {IpPublicA}
             /\ last_updated = stamp
             /\ cacheFile = CacheContent({IpPublicA}, stamp)

\* update_iocs calls one after the other.
NextIOC ==
    \/ UpdateIocs(MainUpdater)
    \/ UpdateStep(MainUpdater)
    \/ UCrash(MainUpdater)
    \/ UTick

SpecIOC == InitIOC /\ [][NextIOC]_vars

\* The scheduler thread and another caller use the one engine at once;
\* update_iocs takes no lock.
NextIOCThreads ==
    \/ \E t \in Updaters : UpdateIocs(t)
    \/ \E t \in Updaters : UpdateStep(t)
    \/ UTick

SpecIOCThreads == InitIOC /\ [][NextIOCThreads]_vars

\* analyze_entry, and with it is_malicious, runs in a worker thread while
\* update_iocs runs in another.
ReadEntries ==
    {e \in Entries : /\ e.time = "UNKNOWN" /\ e.raw = "" /\ e.message = ""
                     /\ e.normalized_request \in {"get /index.html http/1.1",
                                                  "post /login failed login"}}

NextRefreshRead ==
    \/ UpdateIocs(MainUpdater)
    \/ UpdateStep(MainUpdater)
    \/ UTick
    \/ \E e \in ReadEntries : AnalyzeEntry(e)

SpecRefreshRead == InitIOC /\ [][NextRefreshRead]_vars

\* One AlertManager whose send_batch_alerts is called from several threads,
\* with alerts enabled or not and a complete or incomplete configuration.
InitNotify ==
    /\ autoBlock = [enabled |-> FALSE, require_ioc |-> TRUE]
    /\ features \in [EMAIL_ALERTS : BOOLEAN, EMAIL_ALL_DETECTIONS : {FALSE}]
    /\ osType = "Linux"
    /\ clock = 0
    /\ InitThreads
    /\ InitFirewall
    /\ InitResponse
    /\ InitUpdaters
    /\ InitIocEmpty
    /\ InitDetector
    /\ InitScheduler
    /\ InitCorrelation
    /\ InitNormalizer
    /\ InitTailer
    /\ configValid \in BOOLEAN
    /\ lastSent = NoTime
    /\ apc = [i \in Invocations |-> "new"]
    /\ messages = [i \in Invocations |-> 0]
    /\ passed = <<>>

NextNotify ==
    \/ \E i \in Invocations : SendBatchAlerts(i)
    \/ \E i \in Invocations : RateLimit(i)
    \/ \E i \in Invocations : SmtpSend(i)
    \/ AlertTick

SpecNotify == InitNotify /\ [][NextNotify]_vars

\* The scheduler of the reputation refresh, with an interval of an hour or
\* with none configured; its thread is scheduled again and again.
InitSchedule ==
    /\ autoBlock = [enabled |-> FALSE, require_ioc |-> TRUE]
    /\ features = [EMAIL_ALERTS |-> TRUE, EMAIL_ALL_DETECTIONS |-> FALSE]
    /\ osType = "Linux"
    /\ clock = StartClock
    /\ InitThreads
    /\ InitFirewall
    /\ InitResponse
    /\ InitUpdaters
    /\ InitDetector
    /\ InitCorrelation
    /\ InitNormalizer
    /\ InitTailer
    /\ InitAlerter
    /\ refreshHours \in {0, 1}
    /\ schedulerStarted = FALSE
    /\ spc = "off"
    /\ stopAsked = FALSE
    /\ \/ InitIocEmpty
       \/ \E stamp \in {StartClock, StartClock - ThrottleSeconds} :
             /\ iocs = {IpPublicA}
             /\ last_updated = stamp
             /\ cacheFile = CacheContent({IpPublicA}, stamp)

NextSchedule ==
    \/ StartIocScheduler
    \/ SchedulerStep
    \/ StopRequest

SpecSchedule == InitSchedule /\ [][NextSchedule]_vars /\ WF_vars(SchedulerStep)

\* A DetectionEngine with or without an injected IOCEngine, whose set is any
\* set of the sample addresses.
InitDetect ==
    /\ autoBlock = [enabled |-> FALSE, require_ioc |-> TRUE]
    /\ features = [EMAIL_ALERTS |-> TRUE, EMAIL_ALL_DETECTIONS |-> FALSE]
    /\ osType = "Linux"
    /\ clock = 0
    /\ InitThreads
    /\ InitFirewall
    /\ InitResponse
    /\ InitUpdaters
    /\ iocs \in SUBSET {IpPublicA, IpPublicB}
    /\ last_updated = 0
    /\ cacheFile = IF iocs = {} THEN Absent ELSE CacheContent(iocs, 0)
    /\ hasEngine \in BOOLEAN
    /\ entry = NotADict
    /\ result = <<>>
    /\ InitRest

NextDetect == \E e \in Entries \cup {NotADict} : AnalyzeEntry(e)

SpecDetect == InitDetect /\ [][NextDetect]_vars

\* A CorrelationEngine with the default window, handed batches of detections.
InitCorrelate ==
    /\ autoBlock = [enabled |-> FALSE, require_ioc |-> TRUE]
    /\ features = [EMAIL_ALERTS |-> TRUE, EMAIL_ALL_DETECTIONS |-> FALSE]
    /\ osType = "Linux"
    /\ clock = 0
    /\ InitThreads
    /\ InitFirewall
    /\ InitResponse
    /\ InitUpdaters
    /\ InitIocEmpty
    /\ InitDetector
    /\ InitRest

NextCorrelate == Correlate \/ \E d \in CorrPool : AddDetection(d)

SpecCorrelate == InitCorrelate /\ [][NextCorrelate]_vars

\* correlate, handed one of the batches around the thresholds.
InitThresholds ==
    /\ autoBlock = [enabled |-> FALSE, require_ioc |-> TRUE]
    /\ features = [EMAIL_ALERTS |-> TRUE, EMAIL_ALL_DETECTIONS |-> FALSE]
    /\ osType = "Linux"
    /\ clock = 0
    /\ InitThreads
    /\ InitFirewall
    /\ InitResponse
    /\ InitUpdaters
    /\ InitIocEmpty
    /\ InitDetector
    /\ InitScheduler
    /\ InitNormalizer
    /\ InitTailer
    /\ InitAlerter
    /\ batch \in ThresholdBatches
    /\ correlated = FALSE
    /\ incidents = <<>>

NextThresholds == Correlate

SpecThresholds == InitThresholds /\ [][NextThresholds]_vars

\* normalize_log_entry, applied to a request and then to its own output.
NextNormalize ==
    \/ \E p \in Pieces : AddPiece(p)
    \/ AddLongRun
    \/ Normalize
    \/ NormalizeAgain

SpecNormalize == InitCorrelate /\ [][NextNormalize]_vars

\* One LiveLogTailer whose start() runs in a thread of its own, the writer
\* of the log, and a thread that may call stop().  The tailer thread is
\* scheduled again and again.
NextTail ==
    \/ TailerStep
    \/ TailStop
    \/ WriteLine \/ WriteFragment \/ WriteRest
    \/ Rotate

SpecTail == InitCorrelate /\ [][NextTail]_vars /\ WF_vars(TailerStep)

(***************************************************************************)
(* Properties of the response path                                         *)
(***************************************************************************)
SideEffectPcs ==
    {"firewall", "fw_policy", "fw_check", "fw_os", "fw_audit", "fw_write", "fw_done",
     "email", "report", "report_gen", "report_set"}

\* C1: in calls made one after the other, a call whose key was handled no
\* more than 10 minutes before it never reaches the block, alert or report
\* step: a thread is in one of these steps only when its key was not handled
\* before or was handled more than DedupTTL before the call.
C1_DuplicateWithinTtlHasNoSideEffect ==
    \A t \in Threads :
        pc[t] \in SideEffectPcs =>
            (prevRun[t] = NoTime \/ nowL[t] - prevRun[t] > DedupTTL)

\* C1 witness: a call returned at the dedup check exactly DedupTTL after the
\* call that was handled for its key.
C1_Witness ==
    /\ pc[MainThread] = "idle"
    /\ outcome[MainThread] = "duplicate"
    /\ KeyOf(det[MainThread]) \in DOMAIN lastRun
    /\ clock - lastRun[KeyOf(det[MainThread])] = DedupTTL

Digits == {"0", "1", "2", "3", "4", "5", "6", "7", "8", "9"}
DigitVal(c) ==
    CASE c = "0" -> 0 [] c = "1" -> 1 [] c = "2" -> 2 [] c = "3" -> 3
      [] c = "4" -> 4 [] c = "5" -> 5 [] c = "6" -> 6 [] c = "7" -> 7
      [] c = "8" -> 8 [] c = "9" -> 9

RECURSIVE OctetsAcc(_, _, _)
OctetsAcc(s, cur, out) ==
    IF s = <<>> THEN Append(out, cur)
    ELSE IF Head(s) = "." THEN OctetsAcc(Tail(s), 0, Append(out, cur))
    ELSE OctetsAcc(Tail(s), cur * 10 + DigitVal(Head(s)), out)

\* The octets of a dotted-decimal address.
Octets(ip) == OctetsAcc(ip, 0, <<>>)

IsDotted(ip) ==
    /\ ip # <<>>
    /\ \A i \in 1..Len(ip) : ip[i] \in Digits \cup {"."}

\* 10.0.0.0/8, 172.16.0.0/12, 192.168.0.0/16 and 127.0.0.0/8.
InPrivateOrLoopbackRange(ip) ==
    /\ IsDotted(ip)
    /\ LET o == Octets(ip)
       IN  /\ Len(o) = 4
           /\ \/ o[1] = 10
              \/ o[1] = 127
              \/ o[1] = 192 /\ o[2] = 168
              \/ o[1] = 172 /\ o[2] >= 16 /\ o[2] <= 31

\* C2: for every address, netsh is launched at most once over all block_ip
\* calls.
C2_AtMostOneEnforcementPerAddress ==
    \A ip \in SampleIps : netsh[ip] <= 1

\* C3: no private or loopback address is ever enforced against or entered
\* in the ledger, under every policy setting.
C3_NoBlockForPrivateOrLoopback ==
    \A ip \in SampleIps :
        InPrivateOrLoopbackRange(ip) =>
            netsh[ip] = 0 /\ ip \notin DOMAIN blockedFile

\* The block decision in the words of the design.
BlockDecision(d) ==
    /\ autoBlock.enabled
    /\ d.severity = "Critical"
    /\ (~autoBlock.require_ioc \/ d.ioc_hit)

\* C4: handle_detection calls firewall.block_ip only for a detection that
\* meets the block decision, and a step changes the ledger or launches netsh
\* only on behalf of such a detection.
C4_BlockOnlyByPolicy ==
    [][ /\ \A t \in Threads : asked'[t] => BlockDecision(det'[t])
        /\ (blockedFile' # blockedFile \/ netsh' # netsh) =>
              \E t \in Threads :
                  pc[t] \in {"fw_os", "fw_audit", "fw_write"} /\ BlockDecision(det[t]) ]_vars

\* C4 witness: a Critical detection was handled, the firewall was asked and
\* the address is in the ledger.
C4_Witness ==
    /\ outcome[MainThread] = "handled"
    /\ asked[MainThread]
    /\ det[MainThread].severity = "Critical"
    /\ det[MainThread].ip \in DOMAIN blockedFile

\* C5: at most one report is generated between two resets of the latch.
C5_AtMostOneReportPerRun == reports <= 1

(***************************************************************************)
(* Properties of the reputation engine                                     *)
(***************************************************************************)
\* C6: of two update calls made less than an hour apart, at most one
\* requests the feed, and the set after the second equals the set after the
\* first, whatever the first call's outcome.
C6_TwoCallsWithinAnHour ==
    (Len(callLog) = 2 /\ callLog[2].at - callLog[1].at < ThrottleSeconds) =>
        /\ ~(callLog[1].fetched /\ callLog[2].fetched)
        /\ callLog[2].after = callLog[1].after

\* C7: a call that begins less than an hour after the recorded time of the
\* last successful update returns at once: nothing is requested, and the set,
\* last_updated and the cache file stay as they are.
C7_ThrottledCallIsNoOp ==
    [][ (calls' # calls /\ clock - last_updated < ThrottleSeconds) =>
            /\ UNCHANGED <<iocs, last_updated, cacheFile>>
            /\ \A t \in Updaters : upc'[t] = "idle"
            /\ \E t \in Updaters : uresult'[t] = "throttled" /\ ~ufetched'[t] ]_vars

\* C7 witness: a throttled call has returned, half an hour after an update
\* of this engine that wrote the cache.
C7_Witness ==
    /\ uresult[MainUpdater] = "throttled"
    /\ upc[MainUpdater] = "idle"
    /\ cacheFile = CacheContent(iocs, last_updated)
    /\ usnap[MainUpdater] = [iocs |-> iocs, last_updated |-> last_updated]
    /\ clock - last_updated = UTickLen
    /\ Len(callLog) = 2 /\ callLog[1].replaced /\ ~callLog[2].fetched

\* C8: a refresh that failed (nothing loaded, or the cache not written) has
\* returned without raising and left the set and last_updated as they were
\* when it began.
C8_FailedRefreshKeepsState ==
    \A t \in Updaters :
        (upc[t] = "idle" /\ uresult[t] \in {"nodata", "raised"}) =>
            /\ uresult[t] # "raised"
            /\ iocs = usnap[t].iocs
            /\ last_updated = usnap[t].last_updated

\* The cache file holds a whole JSON document, or does not exist.
WholeCache(f) == f = Absent \/ f.state = "json"

\* C18: through a refresh, a failed write and a crash inside _save_cache
\* included, the cache file is never incomplete, and whenever it changes it
\* becomes the whole document of the engine's new set and time.
C18_CacheNeverPartial ==
    /\ [](WholeCache(cacheFile))
    /\ [][cacheFile' # cacheFile =>
             cacheFile' = CacheContent(iocs, last_updated)]_vars

\* C18 witness: the process died in the middle of the write of the temporary
\* file, which is incomplete, and the cache still holds the previous document.
C18_Witness ==
    /\ upc[MainUpdater] = "crashed"
    /\ tmpFile = Partial
    /\ cacheFile = CacheContent({IpPublicA}, StartClock - ThrottleSeconds)
    /\ iocs # {IpPublicA}

\* C20: of the update calls that run at the same time, at most one requests
\* the feed: no two calls in progress have both made the request.
C20_OneFetchAmongConcurrentCalls ==
    \A t1, t2 \in Updaters :
        (t1 # t2 /\ upc[t1] # "idle" /\ upc[t2] # "idle") =>
            ~(ufetched[t1] /\ ufetched[t2])

\* The complete sets around a refresh: the set the engine had when the call
\* of update_iocs began and, once the feed answered with entries, the set
\* of all entries of the body.
WholeSets ==
    IF upc[MainUpdater] = "idle" THEN {iocs}
    ELSE LET new == collected[MainUpdater] \cup ParseFeed(upending[MainUpdater])
         IN  {usnap[MainUpdater].iocs} \cup (IF new = {} THEN {} ELSE {new})

\* C34: is_malicious, called by analyze_entry at any point of a refresh,
\* looks the address up in the complete previous set or in the complete
\* new set and answers accordingly.
C34_ReaderSeesWholeSet ==
    [][<<entry, result>>' # <<entry, result>> =>
          LET answer == result' # <<>> /\ result'[Len(result')].ioc_hit
          IN  /\ LookedUpSet \in WholeSets
              /\ entry'.ip # UNKNOWN =>
                    \E set \in WholeSets : answer = (entry'.ip \in set)]_vars

\* C34 witness: an address was looked up and not found while the refresh
\* had put it into the set it is building and had lines of the body left.
C34_Witness ==
    /\ upc[MainUpdater] = "u_collect"
    /\ upending[MainUpdater] # <<>>
    /\ entry.isdict
    /\ entry.ip \in collected[MainUpdater]
    /\ entry.ip \notin iocs
    /\ result = <<>>

\* C26: after a stop request the loop of the IOC-Scheduler thread ends.
C26_SchedulerStops ==
    (stopAsked /\ spc # "off") ~> (spc = "done")

(***************************************************************************)
(* Properties of the detection engine                                      *)
(***************************************************************************)
Rank(severity) ==
    CASE severity = "Low" -> 0 [] severity = "Medium" -> 1
      [] severity = "High" -> 2 [] severity = "Critical" -> 3

\* The source address of the entry has a reputation hit.
ReputationHit(e) == e.isdict /\ hasEngine /\ e.ip \in iocs \ {UNKNOWN, EmptyText}

\* C9: every rule that matches the entry has one detection, whose severity
\* is the rule's base severity without a reputation hit and one level above
\* it, capped at Critical, with a hit.
C9_EscalationByOneLevel ==
    /\ \A i \in 1..Len(result) :
          result[i].rule # ThreatIntelligenceMatch =>
              LET base == Rank(GetSeverity(result[i].rule))
                  up   == IF ReputationHit(entry) THEN 1 ELSE 0
              IN  Rank(result[i].severity) = (IF base + up > 3 THEN 3 ELSE base + up)
    /\ entry.isdict =>
          \A r \in MatchedRules(PayloadOf(entry)) :
              Cardinality({i \in 1..Len(result) : result[i].rule = r}) = 1

\* C9 witness: a Low rule matched with a reputation hit and came out Medium.
C9_Witness ==
    \E i \in 1..Len(result) :
        /\ result[i].rule = "Failed Login"
        /\ GetSeverity(result[i].rule) = "Low"
        /\ result[i].ioc_hit
        /\ result[i].severity = "Medium"

\* C10: the result holds exactly one "Threat Intelligence Match" detection,
\* Critical and with ioc_hit, and nothing else, when the address has a
\* reputation hit and no rule matches; it holds none otherwise.
C10_SyntheticDetection ==
    LET synthetic == {i \in 1..Len(result) : result[i].rule = ThreatIntelligenceMatch}
    IN  IF ReputationHit(entry) /\ MatchedRules(PayloadOf(entry)) = {}
        THEN /\ Len(result) = 1
             /\ synthetic = {1}
             /\ result[1].severity = "Critical"
             /\ result[1].ioc_hit
        ELSE synthetic = {}

\* C10 witness: an entry with a reputation hit and no matching rule returned
\* the one synthetic detection.
C10_Witness ==
    /\ ReputationHit(entry)
    /\ MatchedRules(PayloadOf(entry)) = {}
    /\ Len(result) = 1
    /\ result[1].rule = ThreatIntelligenceMatch

(***************************************************************************)
(* Properties of the correlation engine                                    *)
(***************************************************************************)
BruteForceOf(ip) ==
    {k \in 1..Len(incidents) :
        incidents[k].ip = ip /\ incidents[k].type = "Brute Force Login Attack"}

\* The in-window events of the address that are failed logins.
FailedLoginsInWindow(ip) ==
    LET recent == RecentEvents(ip)
    IN  {i \in 1..Len(batch) :
            /\ \E k \in 1..Len(recent) : recent[k] = i
            /\ RuleContains(batch[i], "Failed Login")}

\* C11: for each address, correlate returns one "Brute Force Login Attack"
\* incident, High and with count the number of in-window failed logins, when
\* that number is at least 5, and none when it is below 5.
C11_BruteForceIncident ==
    correlated =>
        \A ip \in {batch[i].ip : i \in 1..Len(batch)} :
            LET n == Cardinality(FailedLoginsInWindow(ip))
            IN  IF n >= 5
                THEN /\ Cardinality(BruteForceOf(ip)) = 1
                     /\ \A k \in BruteForceOf(ip) :
                           incidents[k].severity = "High" /\ incidents[k].count = n
                ELSE BruteForceOf(ip) = {}

\* C11 witness: exactly five failed logins of one address in the window,
\* a sixth one outside it, and the incident counts five.
C11_Witness ==
    /\ correlated
    /\ Cardinality(FailedLoginsInWindow(IpPublicA)) = 5
    /\ Cardinality({i \in 1..Len(batch) : batch[i].ip = IpPublicA
                                          /\ batch[i].rule = "Failed Login"}) = 6
    /\ \E k \in BruteForceOf(IpPublicA) : incidents[k].count = 5

\* The events of the address whose parsed time is no more than the window
\* before the chronologically latest event of the address.
ChronologicalWindow(ip) ==
    LET own    == {i \in 1..Len(batch) : batch[i].ip = ip}
        latest == CHOOSE t \in {ParsedTime[batch[i].time] : i \in own} :
                      \A i \in own : ParsedTime[batch[i].time] <= t
    IN  {i \in own : ParsedTime[batch[i].time] >= latest - TimeWindow}

\* The events of the address that correlate hands to _analyze_ip.
Analysed(ip) ==
    LET recent == RecentEvents(ip) IN {recent[k] : k \in 1..Len(recent)}

\* C21: for every address of the batch, the events correlate analyses are
\* the events of the address within the window before its chronologically
\* latest event.
C21_WindowIsChronological ==
    correlated =>
        \A ip \in {batch[i].ip : i \in 1..Len(batch)} :
            Analysed(ip) = ChronologicalWindow(ip)

\* _parse_time finds no timestamp in the text.
Unparseable(time_str) ==
    \/ time_str \in {EmptyText, UNKNOWN}
    \/ FromIsoFormat(time_str) = NoTime /\ StrpTime(FirstWord(time_str)) = NoTime

\* The event whose time _filter_time_window takes as the end of the window.
BoundaryEvent(ip) ==
    LET events == SortByTime(EventsOf(ip)) IN events[Len(events)]

\* C22: when the time of the boundary event of an address cannot be parsed,
\* every event of the address is analysed.
C22_UnparseableBoundaryKeepsAll ==
    correlated =>
        \A ip \in {batch[i].ip : i \in 1..Len(batch)} :
            Unparseable(batch[BoundaryEvent(ip)].time) =>
                Analysed(ip) = {i \in 1..Len(batch) : batch[i].ip = ip}

\* The incidents of the type that correlate returned for the address.
IncidentsOf(ip, type) ==
    {k \in 1..Len(incidents) : incidents[k].ip = ip /\ incidents[k].type = type}

\* C30: for each address, each of the four rules has one incident when its
\* own condition holds on the analysed events of the address and none
\* otherwise, whatever the other rules do.
C30_RulesFireIndependently ==
    correlated =>
        \A ip \in {batch[i].ip : i \in 1..Len(batch)} :
            LET events   == Analysed(ip)
                failed_n == Cardinality({i \in events : batch[i].rule = "Failed Login"})
                scanners == Cardinality({i \in events : batch[i].rule = "Port Scanner"})
                critical == Cardinality({i \in events : batch[i].severity = "Critical"})
                One(type, cond) ==
                    Cardinality(IncidentsOf(ip, type)) = IF cond THEN 1 ELSE 0
            IN  /\ One("Brute Force Login Attack", failed_n >= 5)
                /\ One("Reconnaissance Followed by Exploitation",
                       scanners >= 1 /\ critical >= 1)
                /\ One("Repeated Critical Attack Attempts", critical >= 3)
                /\ One("High Volume Suspicious Activity", Cardinality(events) >= 10)
                /\ Cardinality({k \in 1..Len(incidents) : incidents[k].ip = ip}) <= 4

\* C30 witness: exactly ten events of one address are analysed and all four
\* rules fired for it, while an earlier failed login was left out.
C30_Witness ==
    /\ correlated
    /\ Cardinality(Analysed(IpPublicA)) = 10
    /\ Cardinality({i \in 1..Len(batch) : batch[i].ip = IpPublicA}) = 11
    /\ Cardinality({k \in 1..Len(incidents) : incidents[k].ip = IpPublicA}) = 4

\* The analysed events of the incident's address that qualify for the
\* incident's rule.
Qualifying(inc) ==
    LET events == Analysed(inc.ip)
    IN  CASE inc.type = "Brute Force Login Attack" ->
                 {i \in events : RuleContains(batch[i], "Failed Login")}
          [] inc.type = "Reconnaissance Followed by Exploitation" ->
                 {i \in events : \/ RuleContains(batch[i], "Scanner")
                                  \/ batch[i].severity = "Critical"}
          [] inc.type = "Repeated Critical Attack Attempts" ->
                 {i \in events : batch[i].severity = "Critical"}
          [] inc.type = "High Volume Suspicious Activity" -> events

\* C31: the evidence of every incident lists each qualifying event of the
\* incident's address once and nothing else, and count is the number of
\* these events.
C31_EvidenceIsQualifyingSet ==
    correlated =>
        \A k \in 1..Len(incidents) :
            LET inc == incidents[k]
            IN  /\ {inc.evidence[n] : n \in 1..Len(inc.evidence)} = Qualifying(inc)
                /\ \A m, n \in 1..Len(inc.evidence) :
                       inc.evidence[m] = inc.evidence[n] => m = n
                /\ inc.count = Cardinality(Qualifying(inc))

\* C32: ioc_confirmed of every incident is true exactly when a detection of
\* its evidence has ioc_hit true.
C32_IocConfirmedIffEvidenceHit ==
    correlated =>
        \A k \in 1..Len(incidents) :
            incidents[k].ioc_confirmed
                <=> \E n \in 1..Len(incidents[k].evidence) :
                        batch[incidents[k].evidence[n]].ioc_hit

\* C33: a call of correlate leaves the caller's list as it was, elements,
\* order and fields, and every evidence entry is one of the caller's
\* detections, of the incident's address.
C33_InputUnchanged ==
    [][(~correlated /\ correlated') =>
          /\ batch' = batch
          /\ \A k \in 1..Len(incidents') :
                \A n \in 1..Len(incidents'[k].evidence) :
                    /\ incidents'[k].evidence[n] \in 1..Len(batch')
                    /\ batch'[incidents'[k].evidence[n]].ip = incidents'[k].ip]_vars

\* C33 witness: correlate returned an incident for a list whose detections
\* of one address were not in time order.
C33_Witness ==
    /\ correlated
    /\ incidents # <<>>
    /\ SortByTime(EventsOf(IpPublicA)) # EventsOf(IpPublicA)

(***************************************************************************)
(* Properties of the normalizer                                            *)
(***************************************************************************)
\* C12: normalizing the normalized fields of an entry gives the same two
\* fields again.
C12_NormalizeIdempotent ==
    nPhase = "again" =>
        /\ nAgain.normalized_request = nOut.normalized_request
        /\ nAgain.normalized_raw = nOut.normalized_raw

\* C23: the two normalized fields of a normalized entry are at most 2000
\* characters long.
C23_NormalizedLengthCapped ==
    nPhase # "input" =>
        /\ Len(nOut.normalized_request) <= MAX_LEN
        /\ Len(nOut.normalized_raw) <= MAX_LEN

(***************************************************************************)
(* Properties of the tailer                                                *)
(***************************************************************************)
\* C13: once stop() was called, the polling loop eventually exits and the
\* file handle is closed.
C13_StopEndsLoop ==
    stopRequested ~> (tpc = "done" /\ tFile = NoFile)

Delivered(k) == \E i \in 1..Len(delivered) : delivered[i] = LineText(k)

\* C14: while the tailer runs and the file is not rotated, every line
\* completed after the first open is eventually passed to the callback.
C14_AppendedLineDelivered ==
    \A k \in 1..MaxLines :
        [](k \in afterOpen => <>(Delivered(k) \/ disturbed \/ stopRequested))

\* The texts of the lines of the log.
LineTexts == {<<"0">>} \cup {LineText(k) : k \in 1..MaxLines}

C35_OnlyCompleteLines ==
    [][delivered' # delivered =>
          LET line == ReadLine(files[tFile], tPos)
          IN  line[Len(line)] = NewLine]_vars

(***************************************************************************)
(* Properties of the response steps                                        *)
(***************************************************************************)
\* The call of the thread has gone through its alert step.
PastEmail(t) ==
    \/ pc[t] \in {"report", "report_gen", "report_set"}
    \/ pc[t] = "idle" /\ outcome[t] = "handled"

AlertDecision(d) ==
    /\ features.EMAIL_ALERTS
    /\ features.EMAIL_ALL_DETECTIONS \/ d.severity \in {"High", "Critical"}

\* C15: a detection is handed to the notifier only when alerting is enabled
\* and either "alert all" is set or the severity is High or Critical; in
\* every other case the notifier is not called.
C15_AlertOnlyByPolicy ==
    \A t \in Threads :
        /\ alerted[t] => AlertDecision(det[t])
        /\ PastEmail(t) => (alerted[t] <=> AlertDecision(det[t]))

\* C15 witness: with "alert all" set, a Low detection went to the notifier.
C15_Witness ==
    /\ features.EMAIL_ALERTS /\ features.EMAIL_ALL_DETECTIONS
    /\ det[MainThread].severity = "Low"
    /\ PastEmail(MainThread) /\ alerted[MainThread]

\* C16: a step whose collaborator raised does not end the call: after a
\* failed block step the call goes on with its alert and report steps,
\* after a failed alert step with its report step, and a call that got past
\* the dedup check ends normally, whatever raised in it.
C16_FailedStepDoesNotStopTheRest ==
    \A t \in Threads :
        /\ "block" \in failed[t] =>
              pc[t] \in {"email", "report", "report_gen", "report_set"}
        /\ "alert" \in failed[t] => pc[t] \in {"report", "report_gen", "report_set"}
        /\ pc[t] = "idle" =>
              outcome[t] \in {"none", "empty", "duplicate", "handled"}

\* C16 witness: the block step and the alert step both raised, and the
\* report was generated.
C16_Witness ==
    /\ failed[MainThread] = {"block", "alert"}
    /\ pc[MainThread] = "report_set"
    /\ reports = 1

\* The call of thread t got past the dedup check.
WentOn(t) ==
    \/ pc[t] \in SideEffectPcs
    \/ pc[t] = "idle" /\ outcome[t] = "handled"

\* C19: of the concurrent calls with one (ip, rule, severity), one goes on
\* to the block, alert and report steps: no two threads went on with the same
\* key, and a thread returned at the dedup check only when its key was in
\* the table, put there by the call that went on.
C19_OneCallerPerKey ==
    /\ \A t1, t2 \in Threads :
          (t1 # t2 /\ WentOn(t1) /\ WentOn(t2)) => KeyOf(det[t1]) # KeyOf(det[t2])
    /\ \A t \in Threads :
          (pc[t] = "idle" /\ outcome[t] = "duplicate") =>
              /\ KeyOf(det[t]) \in DOMAIN handled
              /\ KeyOf(det[t]) \in DOMAIN lastRun

\* C19 witness: while one thread is in its response steps, the other thread
\* called with the same key and returned at the dedup check.
C19_Witness ==
    \E t1, t2 \in Threads :
        /\ t1 # t2
        /\ pc[t1] \in SideEffectPcs
        /\ pc[t2] = "idle" /\ outcome[t2] = "duplicate"
        /\ KeyOf(det[t1]) = KeyOf(det[t2])

\* C24: a call for a Detection that returns, other than by the report
\* generator raising, leaves the run with its report generated: the latch,
\* reset at the start of the run, is set.
C24_DetectionInRunIsReported ==
    [][\A t \in Threads :
          (pc[t] \in {"dedup", "report", "report_set"} /\ pc'[t] = "idle") =>
              pdfLatch']_vars

\* C27: a reader of the ledger file never finds it partly written: what
\* the view read was the whole ledger.
C27_ReaderSeesWholeLedger == viewSaw # "partial"

\* C28: when a call leaves the dedup step, a key recorded more than 10
\* minutes before the call goes on to the response steps and is recorded
\* with the time of this call, and the table holds no entry older than 10
\* minutes.
C28_EntryExpiresAfterTtl ==
    [][\A t \in Threads :
          (pc[t] = "dedup" /\ pc'[t] # "dedup") =>
              LET key == KeyOf(det[t])
              IN  /\ (key \in DOMAIN handled /\ nowL[t] - handled[key] > DedupTTL) =>
                        /\ pc'[t] = "firewall"
                        /\ key \in DOMAIN handled' /\ handled'[key] = nowL[t]
                  /\ \A k \in DOMAIN handled' : nowL[t] - handled'[k] <= DedupTTL]_vars

\* C28 witness: a detection whose key was handled 15 minutes before is in
\* its response steps, recorded with the time of this call.
C28_Witness ==
    /\ pc[MainThread] = "firewall"
    /\ prevRun[MainThread] # NoTime
    /\ nowL[MainThread] - prevRun[MainThread] = DedupTTL + TickLen
    /\ handled[KeyOf(det[MainThread])] = nowL[MainThread]

\* C36: a call that returns at the dedup check leaves the time stored for
\* its key as it was; the stored time of a key is always the time of the
\* last call with that key that went on to the response steps, and a call
\* is a duplicate exactly when that call was at most 10 minutes before.
C36_DuplicateKeepsTimestamp ==
    /\ [](\A k \in DOMAIN handled : k \in DOMAIN lastRun /\ handled[k] = lastRun[k])
    /\ [][\A t \in Threads :
             (pc[t] = "dedup" /\ pc'[t] # "dedup") =>
                 LET key == KeyOf(det[t])
                 IN  /\ pc'[t] = "idle" <=>
                           (key \in DOMAIN lastRun /\ nowL[t] - lastRun[key] <= DedupTTL)
                     /\ pc'[t] = "idle" =>
                           /\ key \in DOMAIN handled /\ key \in DOMAIN handled'
                           /\ handled'[key] = handled[key]]_vars

\* C36 witness: a duplicate returned at least five minutes after the call
\* that was handled, and the table still holds the time of that call.
C36_Witness ==
    \E t \in Threads :
        /\ pc[t] = "idle"
        /\ outcome[t] = "duplicate"
        /\ KeyOf(det[t]) \in DOMAIN handled
        /\ clock - handled[KeyOf(det[t])] >= TickLen

\* C37: the latch goes from unset to set only at the step after a report
\* was generated; a reporter that raises leaves it unset; a call that
\* reaches the report step with the latch unset goes to the reporter, and
\* with the latch set it returns without a report.
C37_LatchSetOnlyOnSuccess ==
    [][/\ (~pdfLatch /\ pdfLatch') =>
             \E t \in Threads : pc[t] = "report_set" /\ reports >= 1
       /\ \A t \in Threads :
             /\ (pc[t] = "report_gen" /\ pc'[t] = "idle") =>
                   ~pdfLatch' /\ reports' = reports
             /\ (pc[t] = "report" /\ ~pdfLatch) => pc'[t] = "report_gen"
             /\ (pc[t] = "report" /\ pdfLatch) =>
                   pc'[t] = "idle" /\ reports' = reports
       /\ pdfLatch => (reports' = reports \/ (~pdfLatch' /\ reports' = 0))]_vars

\* C37 witness: with the latch unset and no report generated, a detection
\* is at the reporter after a detection of another key was handled.
C37_Witness ==
    \E t \in Threads :
        /\ pc[t] = "report_gen"
        /\ ~pdfLatch /\ reports = 0
        /\ \E k \in DOMAIN handled : k # KeyOf(det[t])

\* C38: when a call leaves its block step, ip_blocked was emitted exactly
\* when the block decision is positive and block_ip returned, whatever it
\* returned.
C38_NotificationFollowsDecision ==
    [][\A t \in Threads :
          (pc[t] \in {"firewall", "fw_done"} /\ pc'[t] = "email") =>
              /\ signalled'[t] <=>
                    /\ BlockDecision(det[t])
                    /\ det[t].ip # EmptyText /\ det[t].ip # UNKNOWN
                    /\ "block" \notin failed'[t]
              /\ pc[t] = "fw_done" => signalled'[t]]_vars

\* C38 witness: ip_blocked was emitted for a private address, which
\* block_ip refused and which is not in the ledger.
C38_Witness ==
    \E t \in Threads :
        /\ signalled[t]
        /\ IsPrivateIp(det[t].ip)
        /\ det[t].ip \notin DOMAIN blockedFile

\* An OS-level action is taken only by a call that passed the private
\* address check and the ledger check.
ChecksBeforeOsAction ==
    [][netsh' # netsh =>
          \E t \in Threads :
              /\ pc[t] = "fw_os"
              /\ PolicyAllows(fwArg[t].ip, fwArg[t].ioc)
              /\ netsh' = [netsh EXCEPT ![fwArg[t].ip] = @ + 1]]_vars

\* C29: in block_ip the policy and ledger checks come before any OS-level
\* action, and an address has a ledger record only after an enforcement
\* attempt for it was issued.
C29_BlockIpStepOrder ==
    /\ ChecksBeforeOsAction
    /\ [](\A ip \in DOMAIN blockedFile : netsh[ip] >= 1)

\* C17: the audit ledger only grows: in every step each record of the ledger
\* file is still there afterwards, unchanged.
C17_LedgerOnlyGrows ==
    [][\A ip \in DOMAIN blockedFile :
          ip \in DOMAIN blockedFile' /\ blockedFile'[ip] = blockedFile[ip]]_vars

(***************************************************************************)
(* Properties of the notifier                                              *)
(***************************************************************************)
\* C39: any two invocations that passed the rate limit did so at least 30
\* seconds apart and _last_sent is the time of the last of them; every
\* invocation hands at most one message to the server and only after it
\* passed; a suppressed invocation stays suppressed; a failed send leaves
\* _last_sent as the rate limit set it.
C39_OneSendPerCooldown ==
    /\ [](/\ \A j, k \in 1..Len(passed) : j < k => passed[k] - passed[j] >= Cooldown
          /\ lastSent = IF passed = <<>> THEN NoTime ELSE passed[Len(passed)]
          /\ Len(passed) = Cardinality({i \in Invocations :
                                           apc[i] \in {"smtp", "sent", "failed"}})
          /\ \A i \in Invocations :
                /\ messages[i] <= 1
                /\ messages[i] = 1 => apc[i] \in {"sent", "failed"})
    /\ [][\A i \in Invocations :
             /\ apc[i] \in {"suppressed", "returned"} => apc'[i] = apc[i]
             /\ (apc[i] = "smtp" /\ apc'[i] = "failed") =>
                   lastSent' = lastSent /\ lastSent # NoTime]_vars

\* C39 witness: an invocation passed the rate limit and its send failed, a
\* second one was suppressed, and a third passed 30 seconds after the first.
C39_Witness ==
    /\ Len(passed) = 2
    /\ passed[2] - passed[1] = Cooldown
    /\ \E i \in Invocations : apc[i] = "failed" /\ messages[i] = 0
    /\ \E i \in Invocations : apc[i] = "suppressed"

====
